---- MODULE Spec2Model ----
(***************************************************************************)
(* Mock-Paper-Generator: the structured generation client                  *)
(* (backend/src/core/llm_mockgen.py), the text extractor                   *)
(* (backend/src/core/mock_upload.py), the pipeline orchestrator            *)
(* (backend/src/core/pipeline.py), the recognition adapter                 *)
(* (backend/src/core/ocr.py, bootstrap.py), the HTTP endpoint              *)
(* (backend/src/app.py) and the PDF builders                               *)
(* (backend/src/core/pdf_builder.py, mock_export.py).                      *)
(*                                                                         *)
(* The specifications share the variables below; each one drives its own   *)
(* group and leaves the other groups idle:                                 *)
(*   SpecNorm  _normalize_mcq_correct_label on one input                   *)
(*   SpecKey   MockSpec validation and _ensure_complete_answer_key         *)
(*   SpecGen   generate_mock_papers: structured path and legacy fallback   *)
(*   Spec      run_pipeline_end_to_end, one request                        *)
(*   SpecPdf   _extract_text_from_pdf on one document                      *)
(*   SpecApp   the /generate endpoint over the requests of one process     *)
(*   SpecOcr   concurrent callers of init_easyocr_reader                   *)
(*   SpecConf  ocr_image_easy / ocr_image_paddle at two thresholds         *)
(*   SpecUni   normalize_unicode_math on one text of code points           *)
(*   SpecJson  _extract_json on one reply                                  *)
(*   SpecExport mock_export.build_mockpaper_pdf and its two backends       *)
(*   SpecBuild pdf_builder.build_mockpaper_pdf, one line rule per step     *)
(*   SpecText  a section rendered to text and laid out by the builder      *)
(***************************************************************************)
EXTENDS Integers, Sequences, FiniteSets, TLC

VARIABLES
    getRaised,                               \* whether values.get raises in the validator
    npc, correct, lab,                       \* SpecNorm
    kpc, raw, mock,                          \* SpecKey
    gpc, num_mocks, hasKey, sresp, lresp,    \* SpecGen
    specs, result, calls,
    stage, files, pnum, pkey, dirMade, fs,   \* Spec (the pipeline)
    saved_paths, booted, extracted, all_plain, reference_text,
    llm, mock_pairs, generated_paths, ret, err,
    xpc, pages, pidx, text_blocks, reader,   \* SpecPdf
    apc, environ, env0, reqno, form_key,     \* SpecApp
    reqkey, reply, used, readers,
    cache, tpc, tret, built,                 \* SpecOcr
    fpc, engine, res, thr, outs,             \* SpecConf
    upc, utext, uout,                        \* SpecUni
    jpc, jraw, jout,                         \* SpecJson
    epc, has_jinja, has_playwright, pdf_ok,  \* SpecExport
    reportlab_ok, etext, html_doc, out_pdf,
    bpc, is_answer_key, blines, bi, story,   \* SpecBuild
    rpc, rsec, rlines, rstory                \* SpecText

varsNorm == <<npc, correct, lab>>
varsKey  == <<kpc, raw, mock>>
varsGen  == <<gpc, num_mocks, hasKey, sresp, lresp, specs, result, calls>>
varsPipe == <<stage, files, pnum, pkey, dirMade, fs, saved_paths, booted, extracted,
              all_plain, reference_text, llm, mock_pairs, generated_paths, ret, err>>
varsPdf  == <<xpc, pages, pidx, text_blocks, reader>>
varsApp  == <<apc, environ, env0, reqno, form_key, reqkey, reply, used, readers>>
varsOcr  == <<cache, tpc, tret, built>>
varsConf == <<fpc, engine, res, thr, outs>>
varsCore == <<getRaised, varsNorm, varsKey, varsGen, varsPipe>>
varsUni   == <<upc, utext, uout>>
varsJson  == <<jpc, jraw, jout>>
varsExport == <<epc, has_jinja, has_playwright, pdf_ok, reportlab_ok, etext, html_doc, out_pdf>>
varsBuild == <<bpc, is_answer_key, blines, bi, story>>
varsText  == <<rpc, rsec, rlines, rstory>>
varsMid  == <<varsPdf, varsApp, varsOcr, varsConf>>
varsMore == <<varsUni, varsJson, varsExport, varsBuild, varsText>>
varsExt  == <<varsMid, varsMore>>
vars     == <<varsCore, varsExt>>

(***************************************************************************)
(* Generic helpers                                                         *)
(***************************************************************************)
SeqsUpTo(S, n) == UNION {[1..k -> S] : k \in 0..n}

Min(a, b) == IF a < b THEN a ELSE b
Max(a, b) == IF a > b THEN a ELSE b

RECURSIVE Flatten(_)
Flatten(ss) == IF ss = <<>> THEN <<>> ELSE Head(ss) \o Flatten(Tail(ss))

Range(s) == {s[i] : i \in 1..Len(s)}

(***************************************************************************)
(* Python string primitives on sequences of characters.  A character is a  *)
(* one-letter string; "sup2" stands for U+00B2 SUPERSCRIPT TWO, a          *)
(* character for which str.isdigit() is true and int() raises ValueError.  *)
(***************************************************************************)
Whitespace    == {" ", "\n"}
AsciiDigits   == {"0", "1", "2", "3", "4", "5", "6", "7", "8", "9"}
UnicodeDigits == AsciiDigits \cup {"sup2"}

DigitValue(ch) ==
    CASE ch = "0" -> 0 [] ch = "1" -> 1 [] ch = "2" -> 2 [] ch = "3" -> 3
      [] ch = "4" -> 4 [] ch = "5" -> 5 [] ch = "6" -> 6 [] ch = "7" -> 7
      [] ch = "8" -> 8 [] ch = "9" -> 9

UpperLetters ==
    <<"A", "B", "C", "D", "E", "F", "G", "H", "I", "J", "K", "L", "M",
      "N", "O", "P", "Q", "R", "S", "T", "U", "V", "W", "X", "Y", "Z">>

LowerLetters ==
    <<"a", "b", "c", "d", "e", "f", "g", "h", "i", "j", "k", "l", "m",
      "n", "o", "p", "q", "r", "s", "t", "u", "v", "w", "x", "y", "z">>

LowerChar(ch) ==
    IF \E k \in 1..Len(UpperLetters) : UpperLetters[k] = ch
    THEN LowerLetters[CHOOSE k \in 1..Len(UpperLetters) : UpperLetters[k] = ch]
    ELSE ch

\* str.lower()
Lower(s) == [i \in 1..Len(s) |-> LowerChar(s[i])]

RECURSIVE LStrip(_)
LStrip(s) == IF s # <<>> /\ Head(s) \in Whitespace THEN LStrip(Tail(s)) ELSE s

RECURSIVE RStrip(_)
RStrip(s) ==
    IF s # <<>> /\ s[Len(s)] \in Whitespace THEN RStrip(SubSeq(s, 1, Len(s) - 1)) ELSE s

\* str.strip()
Strip(s) == RStrip(LStrip(s))

\* str.isdigit(): non-empty and every character has the Unicode digit property
IsDigit(s) == s # <<>> /\ \A i \in 1..Len(s) : s[i] \in UnicodeDigits

\* int(s) succeeds on a string that passed isdigit() only if all are decimal digits
IntParses(s) == \A i \in 1..Len(s) : s[i] \in AsciiDigits

RECURSIVE IntOf(_)
IntOf(s) == IF s = <<>> THEN 0 ELSE 10 * IntOf(SubSeq(s, 1, Len(s) - 1)) + DigitValue(s[Len(s)])

(***************************************************************************)
(* _normalize_mcq_correct_label                                            *)
(***************************************************************************)
\* the values of Question.correct: None, an int, or a str
NoneVal    == [kind |-> "none", n |-> 0, s |-> <<>>]
IntVal(k)  == [kind |-> "int",  n |-> k, s |-> <<>>]
StrVal(cs) == [kind |-> "str",  n |-> 0, s |-> cs]

McqLetters == {"a", "b", "c", "d"}

\* "abcd"[n]
Abcd(n) == <<"a", "b", "c", "d">>[n + 1]

\* the index branches shared by the int case and the isdigit() case;
\* "fall" means no return happened (the str case goes on to the regexes)
IndexLabel(n) ==
    IF 0 <= n /\ n <= 3 THEN Abcd(n)
    ELSE IF 1 <= n /\ n <= 4 THEN Abcd(n - 1)
    ELSE "fall"

\* re.match(r"^\(?(G)\)?\.?$", c) for a one-character group G drawn from `group`:
\* the captured character, or "nomatch"
MatchWrapped(c, group) ==
    LET afterOpen  == IF c # <<>> /\ Head(c) = "(" THEN Tail(c) ELSE c
        tryAt(r)   ==
            IF r # <<>> /\ Head(r) \in group
            THEN LET r1 == Tail(r)
                     r2 == IF r1 # <<>> /\ Head(r1) = ")" THEN Tail(r1) ELSE r1
                     r3 == IF r2 # <<>> /\ Head(r2) = "." THEN Tail(r2) ELSE r2
                 IN  IF r3 = <<>> THEN Head(r) ELSE "nomatch"
            ELSE "nomatch"
    IN  tryAt(afterOpen)

\* the two regex branches, m1 and m2 being the matches of the letter pattern
\* and of the [1-4] pattern
RegexLabel(m1, m2) ==
    IF m1 # "nomatch" THEN m1
    ELSE IF m2 # "nomatch" THEN Abcd(DigitValue(m2) - 1)
    ELSE "None"

NormalizeStrNoInt(c) ==
    RegexLabel(MatchWrapped(c, McqLetters), MatchWrapped(c, {"1", "2", "3", "4"}))

\* the isdigit() branch once n = int(c) is known
DigitsLabel(c, n) ==
    IF IndexLabel(n) # "fall" THEN IndexLabel(n) ELSE NormalizeStrNoInt(c)

\* the str case on c = str(correct).strip().lower()
NormalizeLowered(c) ==
    IF Len(c) = 1 /\ c[1] \in McqLetters THEN c[1]
    ELSE IF IsDigit(c)
         THEN IF ~IntParses(c) THEN "ValueError" ELSE DigitsLabel(c, IntOf(c))
         ELSE NormalizeStrNoInt(c)

\* the result is a letter, "None", or "ValueError" when int(c) raises
NormalizeStr(cs) == NormalizeLowered(Lower(Strip(cs)))

NormalizeMcqCorrectLabel(cv) ==
    CASE cv.kind = "none" -> "None"
      [] cv.kind = "int"  -> IF IndexLabel(cv.n) # "fall" THEN IndexLabel(cv.n) ELSE "None"
      [] cv.kind = "str"  -> NormalizeStr(cv.s)

(***************************************************************************)
(* The MockSpec schema: Question, Section, AnswerItem, MockSpec.  A text   *)
(* field holds a token; options is the list left by _strip_empty_options   *)
(* (<<>> for None).                                                        *)
(***************************************************************************)
QIds      == {"q1", "q2"}
OrphanId  == "zz"
FourOptions == <<"a. w", "b. x", "c. y", "d. z">>

Question(id, options, cv) ==
    [id |-> id, text |-> "t", marks |-> "None", options |-> options, correct |-> cv]
Section(title, questions)  == [title |-> title, questions |-> questions]
AnswerItem(id, answer)     == [id |-> id, answer |-> answer, workings |-> "None"]
MockSpec(sections, answer_key) ==
    [title |-> "Mock Exam Paper", sections |-> sections, answer_key |-> answer_key]

\* the questions of a spec in document order: for sec in m.sections: for q in sec.questions
AllQuestions(m) == Flatten([i \in 1..Len(m.sections) |-> m.sections[i].questions])

\* MockSpec._qid_set
QidSet(m) == {q.id : q \in Range(AllQuestions(m))}

AnswerIds(m) == {a.id : a \in Range(m.answer_key)}

\* MockSpec._answers_refer_to_existing_qids(v, values): `raised` tells whether
\* values.get("sections") raised inside the try block, which leaves qids empty
AnswersReferToExistingQids(m, raised) ==
    LET qids == IF raised THEN {} ELSE QidSet(m)
        v    == m.answer_key
    IN  IF qids # {} /\ v # <<>>
        THEN [m EXCEPT !.answer_key = SelectSeq(v, LAMBDA a : a.id \in qids)]
        ELSE m

\* the loop of _ensure_complete_answer_key over the remaining questions;
\* a ValueError of the label normalisation leaves the loop
\* the label found for an unanswered question: that of the correct field
\* if q.options, none otherwise
LabelOf(q) == IF q.options # <<>> THEN NormalizeMcqCorrectLabel(q.correct) ELSE "None"

RECURSIVE CompleteLoop(_, _, _)
\* one unanswered question q = Head(qs) whose label is l
CompleteStep(qs, existing, ak, l) ==
    IF l = "ValueError" THEN [raised |-> TRUE, ak |-> ak]
    ELSE CompleteLoop(Tail(qs), existing \cup {Head(qs).id},
                      Append(ak, AnswerItem(Head(qs).id, IF l = "None" THEN "[missing]" ELSE l)))

CompleteLoop(qs, existing, ak) ==
    IF qs = <<>> THEN [raised |-> FALSE, ak |-> ak]
    ELSE IF Head(qs).id \in existing THEN CompleteLoop(Tail(qs), existing, ak)
    ELSE CompleteStep(qs, existing, ak, LabelOf(Head(qs)))

\* a completion that synthesises entries for multiple-choice questions only
EnsureCompleteMcqOnly(m) ==
    LET mcq == SelectSeq(AllQuestions(m), LAMBDA q : q.options # <<>>)
    IN  CompleteLoop(mcq, AnswerIds(m), m.answer_key)

\* _ensure_complete_answer_key(m): [raised, ak], ak being the new m.answer_key
EnsureCompleteAnswerKey(m) == CompleteLoop(AllQuestions(m), AnswerIds(m), m.answer_key)

(***************************************************************************)
(* Texts.  A line is a sequence of tokens (<<>> is the blank line), a text *)
(* is a sequence of lines.                                                 *)
(***************************************************************************)
JunkGlyph == "<U+25A0>"

\* normalize_unicode_math on the tokens used here: printable ASCII is kept,
\* a junk block becomes "*"
NormalizeToken(t) == IF t = JunkGlyph THEN "*" ELSE t

NormalizeUnicodeMath(line) == [i \in 1..Len(line) |-> NormalizeToken(line[i])]

RECURSIVE LStripText(_)
LStripText(t) == IF t # <<>> /\ Head(t) = <<>> THEN LStripText(Tail(t)) ELSE t

RECURSIVE RStripText(_)
RStripText(t) ==
    IF t # <<>> /\ t[Len(t)] = <<>> THEN RStripText(SubSeq(t, 1, Len(t) - 1)) ELSE t

\* "\n".join(lines).strip(): the blank lines at both ends go
JoinStrip(lines) == RStripText(LStripText(lines))

\* s[:n] of Python, n negative included
PyPrefix(s, n) ==
    IF n >= 0 THEN SubSeq(s, 1, Min(n, Len(s)))
    ELSE SubSeq(s, 1, Max(Len(s) + n, 0))

IntStr(k) == <<"1", "2", "3", "4", "5", "6", "7", "8", "9">>[k]

(***************************************************************************)
(* generate_mock_specs                                                     *)
(***************************************************************************)
\* num_mocks = max(1, min(num_mocks, 3))
ClampMocks(n) == Max(1, Min(n, 3))

\* MockSpec(sections=[Section(title="Section 1", questions=[])], answer_key=[])
PlaceholderSpec == MockSpec(<<Section("Section 1", <<>>)>>, <<>>)

\* the structured service call and what becomes of its response:
\*   "error"      client.chat.completions.create raised
\*   "malformed"  _json_loads_safe raised
\*   "invalid"    MockSet.model_validate raised
\*   "valid"      the payload validated, its "mocks" are resp.mocks
SResp(kind, mocks) == [kind |-> kind, mocks |-> mocks]

\* while len(mocks) < num_mocks: the placeholder is completed and appended
RECURSIVE PadSpecs(_, _)
PadSpecs(mocks, k) ==
    IF Len(mocks) < k
    THEN PadSpecs(Append(mocks, [PlaceholderSpec EXCEPT !.answer_key =
                                     EnsureCompleteAnswerKey(PlaceholderSpec).ak]), k)
    ELSE mocks

\* one mock of the payload after model_validate and _ensure_complete_answer_key:
\* [raised, mock]
Attach(v, c) == [raised |-> c.raised, mock |-> [v EXCEPT !.answer_key = c.ak]]
WithKey(v) == Attach(v, EnsureCompleteAnswerKey(v))
Processed(m, raised) == WithKey(AnswersReferToExistingQids(m, raised))

Raise(n) == [status |-> "raise", specs |-> <<>>, calls |-> n]

\* generate_mock_specs from configure_openai on, k being the clamped num_mocks
\* and done the processed mocks of the payload
SpecsOf(k, key, kind, done) ==
    IF ~key THEN Raise(0)
    ELSE IF kind # "valid" THEN Raise(1)
    ELSE IF \E i \in 1..Len(done) : done[i].raised THEN Raise(1)
    ELSE [status |-> "ok",
          specs  |-> PyPrefix(PadSpecs([i \in 1..Len(done) |-> done[i].mock], k), k),
          calls  |-> 1]

\* generate_mock_specs(num_mocks=n, api_key) on the response resp:
\* [status, specs, calls], calls counting the service calls made
GenerateMockSpecs(n, key, resp, raised) ==
    SpecsOf(ClampMocks(n), key, resp.kind,
            [i \in 1..Len(resp.mocks) |-> Processed(resp.mocks[i], raised)])

(***************************************************************************)
(* _render_spec_to_text                                                    *)
(***************************************************************************)
LeakTokens == {"Answer:", "Correct:"}

\* re.sub(r"(Answer\s*:.*|Correct\s*:.*)$", "", q_text).strip()
RECURSIVE CutLeak(_)
CutLeak(line) ==
    IF line = <<>> THEN <<>>
    ELSE IF Head(line) \in LeakTokens THEN <<>>
    ELSE <<Head(line)>> \o CutLeak(Tail(line))

QuestionLines(q) ==
    LET marks_str == IF q.marks # "None" THEN <<" (", q.marks, " marks)">> ELSE <<>>
        q_text    == CutLeak(NormalizeUnicodeMath(<<q.id, ". ", q.text>> \o marks_str))
        opts      == PyPrefix(q.options, 4)
    IN  <<q_text>> \o [j \in 1..Len(opts) |-> NormalizeUnicodeMath(<<opts[j]>>)] \o << <<>> >>

SectionLines(s_idx, sec) ==
    << NormalizeUnicodeMath(<<IntStr(s_idx), ". ", sec.title>>) >>
        \o Flatten([j \in 1..Len(sec.questions) |-> QuestionLines(sec.questions[j])])
        \o << <<>> >>

AnswerLines(a) ==
    << <<a.id, ": ">> \o NormalizeUnicodeMath(<<a.answer>>) >>
        \o (IF a.workings # "None" THEN << NormalizeUnicodeMath(<<a.workings>>) >> ELSE <<>>)
        \o << <<>> >>

\* _render_spec_to_text(spec): the pair (paper text, answer text); the spec is
\* validated again, so the answer_key validator runs once more
RenderValidated(m) ==
    LET paper_lines ==
            (IF m.title # "" THEN << <<m.title>>, <<>> >> ELSE <<>>)
                \o Flatten([i \in 1..Len(m.sections) |-> SectionLines(i, m.sections[i])])
        ans_lines   ==
            << <<"Answer Key">> >>
                \o Flatten([i \in 1..Len(m.answer_key) |-> AnswerLines(m.answer_key[i])])
    IN  <<JoinStrip(paper_lines), JoinStrip(ans_lines)>>

RenderSpecToText(spec, raised) == RenderValidated(AnswersReferToExistingQids(spec, raised))

(***************************************************************************)
(* The legacy fallback of generate_mock_papers                             *)
(***************************************************************************)
PaperTag  == <<"### MOCK PAPER", " 1">>
AnswerTag == <<"### ANSWER KEY", " 1">>

\* line.strip().lower().startswith("### mock paper") / ("### answer key")
IsPaperTag(line)  == line # <<>> /\ Head(line) = "### MOCK PAPER"
IsAnswerTag(line) == line # <<>> /\ Head(line) = "### ANSWER KEY"

Flush(outputs, cp, ca) ==
    IF cp # <<>> \/ ca # <<>> THEN Append(outputs, <<JoinStrip(cp), JoinStrip(ca)>>)
    ELSE outputs

\* the line scan: for line in raw.splitlines(), then the flush after the loop
RECURSIVE LegacyScan(_, _, _, _, _)
LegacyScan(lines, outputs, cp, ca, mode) ==
    IF lines = <<>> THEN Flush(outputs, cp, ca)
    ELSE LET line == Head(lines) IN
         IF IsPaperTag(line)
         THEN IF cp # <<>> \/ ca # <<>>
              THEN LegacyScan(Tail(lines), Flush(outputs, cp, ca), <<>>, <<>>, "paper")
              ELSE LegacyScan(Tail(lines), outputs, cp, ca, "paper")
         ELSE IF IsAnswerTag(line)
         THEN LegacyScan(Tail(lines), outputs, cp, ca, "answers")
         ELSE IF mode = "paper"
         THEN LegacyScan(Tail(lines), outputs, Append(cp, NormalizeUnicodeMath(line)), ca, mode)
         ELSE IF mode = "answers"
         THEN LegacyScan(Tail(lines), outputs, cp, Append(ca, NormalizeUnicodeMath(line)), mode)
         ELSE LegacyScan(Tail(lines), outputs, cp, ca, mode)

\* the legacy service call: "error" when the call raised, else "text" with
\* the lines of the message content
LResp(kind, lines) == [kind |-> kind, lines |-> lines]

RECURSIVE PadPairs(_, _)
PadPairs(outputs, k) ==
    IF Len(outputs) < k THEN PadPairs(Append(outputs, << <<>>, <<>> >>), k) ELSE outputs

\* the except branch of generate_mock_papers: [status, result, calls]
LegacyPapers(n, key, resp) ==
    IF ~key THEN [status |-> "raise", result |-> <<>>, calls |-> 0]
    ELSE IF resp.kind = "error" THEN [status |-> "raise", result |-> <<>>, calls |-> 1]
    ELSE [status |-> "ok",
          result |-> PyPrefix(PadPairs(LegacyScan(JoinStrip(resp.lines), <<>>, <<>>, <<>>, "none"),
                                       ClampMocks(n)), n),
          calls  |-> 1]

\* generate_mock_papers(num_mocks=n, api_key) when the structured call gets sr
\* and the legacy call, if it is made, gets lr: [status, result, calls]
PapersOf(g, l, raised) ==
    IF g.status = "ok"
    THEN [status |-> "ok",
          result |-> [i \in 1..Len(g.specs) |-> RenderSpecToText(g.specs[i], raised)],
          calls  |-> g.calls]
    ELSE [status |-> l.status, result |-> l.result, calls |-> g.calls + l.calls]

GenerateMockPapers(n, key, sr, lr, raised) ==
    PapersOf(GenerateMockSpecs(n, key, sr, raised), LegacyPapers(n, key, lr), raised)

(***************************************************************************)
(* Bounds and input sets                                                   *)
(***************************************************************************)
MaxStrLen     == 3
MaxInt        == 5
MaxQuestions  == 2
MaxSections   == 2
MaxAnswers    == 2
MaxBelow      == 1
MaxNumMocks   == 4
MaxRespMocks  == 4
MaxLines      == 4
MaxFiles      == 2
MaxPages      == 2
MaxBlocks     == 2
MaxRequests   == 2
MaxThreads    == 2
MaxCalls      == 2
MaxItems      == 2
MaxPieces     == 2
MaxJsonLen    == 4
MaxDocLines   == 3
MaxOptions    == 5

NormAlphabet ==
    {"a", "b", "d", "C", "e", "0", "1", "4", "5", "(", ")", ".", ":", " ", "sup2"}

CorrectInputs ==
    {NoneVal} \cup {IntVal(k) : k \in (0 - 2)..MaxInt}
              \cup {StrVal(cs) : cs \in SeqsUpTo(NormAlphabet, MaxStrLen)}

KeyCorrects == {NoneVal, StrVal(<<"B", ".">>), StrVal(<<"sup2">>)}

\* free questions under either id, multiple-choice questions under the first
Questions ==
    {Question(id, <<>>, NoneVal) : id \in QIds}
        \cup {Question("q1", FourOptions, cv) : cv \in KeyCorrects}

\* the ways to cut a list of len questions into n consecutive sections
Cuts(len, n) ==
    {f \in [1..len -> 1..n] : \A j \in 1..(len - 1) : f[j] <= f[j + 1]}

SectionsOf(qs, f, n) ==
    [i \in 1..n |->
        Section("T", SubSeq(qs, Cardinality({j \in 1..Len(qs) : f[j] < i}) + 1,
                                Cardinality({j \in 1..Len(qs) : f[j] <= i})))]

SectionLists ==
    UNION {{SectionsOf(qs, f, n) : f \in Cuts(Len(qs), n)} :
              qs \in SeqsUpTo(Questions, MaxQuestions), n \in 0..MaxSections}

AnswerKeys == SeqsUpTo({AnswerItem(id, "x") : id \in QIds \cup {OrphanId}}, MaxAnswers)

\* the mocks a payload can hold before validation
RawMocks == {MockSpec(secs, ak) : secs \in SectionLists, ak \in AnswerKeys}

NumMocksInputs == (0 - MaxBelow)..MaxNumMocks

\* the num_mocks of a request: below the range, inside it, above it
PipeNumMocks == {0, 1, MaxNumMocks}

\* the mocks of the structured responses: no question; a free question without
\* answer; a multiple-choice question without answer beside an orphaned answer
EmptyMock == MockSpec(<<Section("T", <<>>)>>, <<>>)
FreeMock  == MockSpec(<<Section("T", <<Question("q1", <<>>, NoneVal)>>)>>, <<>>)
McqMock   ==
    MockSpec(<<Section("T", <<Question("q1", FourOptions, StrVal(<<"B", ".">>))>>)>>,
             <<AnswerItem(OrphanId, "x")>>)
\* a multiple-choice question whose correct field makes the completion raise
BadLabelMock ==
    MockSpec(<<Section("T", <<Question("q2", FourOptions, StrVal(<<"sup2">>))>>)>>, <<>>)

StructResponses ==
    {SResp("error", <<>>), SResp("malformed", <<>>), SResp("invalid", <<>>)}
        \cup {SResp("valid", ms) : ms \in SeqsUpTo({EmptyMock, FreeMock, McqMock}, MaxRespMocks)}
        \cup {SResp("valid", <<BadLabelMock>>)}

LegacyLineSet == {PaperTag, AnswerTag, <<"x", JunkGlyph>>, <<>>}

\* a delimited block of a legacy response: the paper delimiter, the lines of
\* the paper, the answer delimiter, the lines of the answers
Block(paper, answers) == [paper |-> paper, answers |-> answers]

BlockLines(b, i) ==
    << <<"### MOCK PAPER", IntStr(i)>> >> \o b.paper
        \o << <<"### ANSWER KEY", IntStr(i)>> >> \o b.answers

RECURSIVE BlocksLines(_, _)
BlocksLines(bs, i) ==
    IF i > Len(bs) THEN <<>> ELSE BlockLines(bs[i], i) \o BlocksLines(bs, i + 1)

BlockSet ==
    {Block(pp, aa) : pp \in {<< <<"p">> >>, << <<"p", JunkGlyph>>, <<"q">> >>},
                     aa \in {<< <<"y">> >>}}

\* responses made of a preamble and one block or more
BlockResponses ==
    {LResp("text", pre \o BlocksLines(bs, 1)) :
        pre \in {<<>>, << <<"intro">> >>},
        bs \in SeqsUpTo(BlockSet, MaxBlocks) \ {<<>>}}

LegacyResponses ==
    {LResp("error", <<>>)}
        \cup {LResp("text", ls) : ls \in SeqsUpTo(LegacyLineSet, MaxLines)}
        \cup BlockResponses

NoSResp == SResp("none", <<>>)
NoLResp == LResp("none", <<>>)

(***************************************************************************)
(* The idle values of each group of variables                              *)
(***************************************************************************)
IdleNorm == npc = "idle" /\ correct = NoneVal /\ lab = "unset"

IdleKey == kpc = "idle" /\ raw = <<>> /\ mock = <<>>

IdleGen ==
    /\ gpc = "idle" /\ num_mocks = 0 /\ hasKey = FALSE
    /\ sresp = NoSResp /\ lresp = NoLResp
    /\ specs = <<>> /\ result = <<>> /\ calls = 0

IdlePipe ==
    /\ stage = "idle" /\ files = <<>> /\ pnum = 0 /\ pkey = FALSE
    /\ dirMade = FALSE /\ fs = {} /\ saved_paths = <<>> /\ booted = FALSE
    /\ extracted = <<>> /\ all_plain = <<>> /\ reference_text = <<>>
    /\ llm = 0 /\ mock_pairs = <<>> /\ generated_paths = <<>>
    /\ ret = [returned |-> FALSE, paths |-> <<>>] /\ err = "none"

IdlePdf ==
    /\ xpc = "idle" /\ pages = <<>> /\ pidx = 0 /\ text_blocks = <<>> /\ reader = "None"

IdleApp ==
    /\ apc = "idle" /\ environ = <<>> /\ env0 = <<>> /\ reqno = 0 /\ form_key = NoneVal
    /\ reqkey = <<>> /\ reply = "none" /\ used = {} /\ readers = 0

IdleOcr == cache = {} /\ tpc = <<>> /\ tret = <<>> /\ built = <<>>

IdleConf == fpc = "idle" /\ engine = "none" /\ res = <<>> /\ thr = <<>> /\ outs = <<>>

IdleUni == upc = "idle" /\ utext = <<>> /\ uout = <<>>

IdleJson == jpc = "idle" /\ jraw = <<>> /\ jout = <<>>

IdleExport ==
    /\ epc = "idle" /\ has_jinja = FALSE /\ has_playwright = FALSE /\ pdf_ok = FALSE
    /\ reportlab_ok = FALSE /\ etext = <<>> /\ html_doc = <<>> /\ out_pdf = "none"

IdleBuild == bpc = "idle" /\ is_answer_key = FALSE /\ blines = <<>> /\ bi = 0 /\ story = <<>>

IdleText == rpc = "idle" /\ rsec = <<>> /\ rlines = <<>> /\ rstory = <<>>

IdleMid == IdlePdf /\ IdleApp /\ IdleOcr /\ IdleConf

IdleMore == IdleUni /\ IdleJson /\ IdleExport /\ IdleBuild /\ IdleText

IdleExt == IdleMid /\ IdleMore

(***************************************************************************)
(* SpecNorm: one call of _normalize_mcq_correct_label                      *)
(***************************************************************************)
InitNorm ==
    /\ IdleKey /\ IdleGen /\ IdlePipe /\ getRaised = FALSE
    /\ IdleExt
    /\ npc = "call" /\ correct \in CorrectInputs /\ lab = "unset"

NormReturn ==
    /\ npc = "call"
    /\ NormalizeMcqCorrectLabel(correct) # "ValueError"
    /\ lab' = NormalizeMcqCorrectLabel(correct)
    /\ npc' = "returned"
    /\ UNCHANGED <<correct, getRaised, varsKey, varsGen, varsPipe, varsExt>>

NormRaise ==
    /\ npc = "call"
    /\ NormalizeMcqCorrectLabel(correct) = "ValueError"
    /\ lab' = "ValueError"
    /\ npc' = "raised"
    /\ UNCHANGED <<correct, getRaised, varsKey, varsGen, varsPipe, varsExt>>

NextNorm == NormReturn \/ NormRaise

SpecNorm == InitNorm /\ [][NextNorm]_vars

(***************************************************************************)
(* SpecKey: one mock of a service response is validated, then completed    *)
(***************************************************************************)
InitKey ==
    /\ IdleNorm /\ IdleGen /\ IdlePipe
    /\ IdleExt
    /\ kpc = "parsed"
    /\ raw \in RawMocks
    /\ mock = raw
    /\ getRaised \in BOOLEAN

\* MockSet.model_validate: the answer_key validator runs on the parsed mock
ValidateMock ==
    /\ kpc = "parsed"
    /\ mock' = AnswersReferToExistingQids(mock, getRaised)
    /\ kpc' = "validated"
    /\ UNCHANGED <<raw, getRaised, varsNorm, varsGen, varsPipe, varsExt>>

\* _ensure_complete_answer_key(m) returns: m.answer_key = ak
CompleteReturn ==
    /\ kpc = "validated"
    /\ ~EnsureCompleteAnswerKey(mock).raised
    /\ mock' = [mock EXCEPT !.answer_key = EnsureCompleteAnswerKey(mock).ak]
    /\ kpc' = "completed"
    /\ UNCHANGED <<raw, getRaised, varsNorm, varsGen, varsPipe, varsExt>>

\* _ensure_complete_answer_key(m) raises: m is left as it was
CompleteRaise ==
    /\ kpc = "validated"
    /\ EnsureCompleteAnswerKey(mock).raised
    /\ kpc' = "raised"
    /\ UNCHANGED <<raw, mock, getRaised, varsNorm, varsGen, varsPipe, varsExt>>

NextKey == ValidateMock \/ CompleteReturn \/ CompleteRaise

SpecKey == InitKey /\ [][NextKey]_vars

(***************************************************************************)
(* SpecGen: one call of generate_mock_papers                               *)
(***************************************************************************)
InitGen ==
    /\ IdleNorm /\ IdleKey /\ IdlePipe
    /\ IdleExt
    /\ gpc = "try"
    /\ num_mocks \in NumMocksInputs
    /\ hasKey \in BOOLEAN
    /\ getRaised \in BOOLEAN
    /\ sresp = NoSResp /\ lresp = NoLResp
    /\ specs = <<>> /\ result = <<>> /\ calls = 0

\* the responses the structured call can get: none without a credential,
\* because configure_openai raises before the call
StructOutcomes == IF hasKey THEN StructResponses ELSE {NoSResp}

\* the try block: generate_mock_specs returns and every spec is rendered
StructuredReturn ==
    /\ gpc = "try"
    /\ \E r \in StructOutcomes :
          \E g \in {GenerateMockSpecs(num_mocks, hasKey, r, getRaised)} :
          /\ g.status = "ok"
          /\ sresp' = r
          /\ specs' = g.specs
          /\ result' = [i \in 1..Len(g.specs) |-> RenderSpecToText(g.specs[i], getRaised)]
          /\ calls' = calls + g.calls
    /\ gpc' = "returned"
    /\ UNCHANGED <<num_mocks, hasKey, lresp, getRaised, varsNorm, varsKey, varsPipe, varsExt>>

\* the try block raises: control passes to the except branch
StructuredRaise ==
    /\ gpc = "try"
    /\ \E r \in StructOutcomes :
          \E g \in {GenerateMockSpecs(num_mocks, hasKey, r, getRaised)} :
          /\ g.status = "raise"
          /\ sresp' = r
          /\ calls' = calls + g.calls
    /\ gpc' = "except"
    /\ UNCHANGED <<num_mocks, hasKey, lresp, specs, result, getRaised, varsNorm, varsKey, varsPipe, varsExt>>

LegacyOutcomes == IF hasKey THEN LegacyResponses ELSE {NoLResp}

\* the except branch returns outputs[:num_mocks]
LegacyReturn ==
    /\ gpc = "except"
    /\ \E r \in LegacyOutcomes :
          \E g \in {LegacyPapers(num_mocks, hasKey, r)} :
          /\ g.status = "ok"
          /\ lresp' = r
          /\ result' = g.result
          /\ calls' = calls + g.calls
    /\ gpc' = "returned"
    /\ UNCHANGED <<num_mocks, hasKey, sresp, specs, getRaised, varsNorm, varsKey, varsPipe, varsExt>>

\* a variant of the except branch that turns a failed legacy call into the
\* padded result
LegacyRaiseSwallowed ==
    /\ gpc = "except"
    /\ \E r \in LegacyOutcomes :
          \E g \in {LegacyPapers(num_mocks, hasKey, r)} :
          /\ g.status = "raise"
          /\ lresp' = r
          /\ calls' = calls + g.calls
    /\ result' = PadPairs(<<>>, ClampMocks(num_mocks))
    /\ gpc' = "returned"
    /\ UNCHANGED <<num_mocks, hasKey, sresp, specs, getRaised, varsNorm, varsKey, varsPipe, varsExt>>

\* the except branch raises: the error leaves generate_mock_papers
LegacyRaise ==
    /\ gpc = "except"
    /\ \E r \in LegacyOutcomes :
          \E g \in {LegacyPapers(num_mocks, hasKey, r)} :
          /\ g.status = "raise"
          /\ lresp' = r
          /\ calls' = calls + g.calls
    /\ gpc' = "raised"
    /\ UNCHANGED <<num_mocks, hasKey, sresp, specs, result, getRaised, varsNorm, varsKey, varsPipe, varsExt>>

NextGen == StructuredReturn \/ StructuredRaise \/ LegacyReturn \/ LegacyRaise

SpecGen == InitGen /\ [][NextGen]_vars

(***************************************************************************)
(* Spec: one request through run_pipeline_end_to_end                       *)
(***************************************************************************)
\* an uploaded document: a file-like object or a path, its extension, and
\* what extraction finds in it: "text"; "empty", no text and no page to
\* recognise; "scanned", a PDF with a page without native text; "corrupt",
\* opening or reading it raises
Upload(filelike, ext, content) == [filelike |-> filelike, ext |-> ext, content |-> content]

UploadKinds ==
    {Upload(fl, ".pdf", c) : fl \in BOOLEAN, c \in {"text", "empty", "scanned", "corrupt"}}
        \cup {Upload(fl, ".docx", c) : fl \in BOOLEAN, c \in {"text", "empty"}}
        \cup {Upload(fl, ".txt", "text") : fl \in BOOLEAN}

SupportedExts == {".pdf", ".docx", ".doc"}

\* a file of the working directory: out / f"{name}_{idx}{ext}" (idx 0: none)
OutFile(name, idx, ext) == <<"out", name, idx, ext>>

ConcatTxt  == OutFile("reference_concat", 0, ".txt")
ConcatHtml == OutFile("reference_concat", 0, ".html")
PaperPdf(idx)   == OutFile("mock", idx, ".pdf")
AnswersPdf(idx) == OutFile("mock_answers", idx, ".pdf")

EmptyDocMarker == "[EMPTY DOCUMENT: No text extracted]"

\* the responses the two service calls of one request can get
PipeStructResponses ==
    {SResp("error", <<>>), SResp("valid", <<>>), SResp("valid", <<FreeMock, McqMock>>)}

PipeLegacyResponses ==
    {LResp("error", <<>>),
     LResp("text", <<PaperTag, <<"x", JunkGlyph>>, AnswerTag, <<"x", JunkGlyph>> >>),
     LResp("text", <<PaperTag, <<"x", JunkGlyph>>, PaperTag, <<"x", JunkGlyph>>,
                     PaperTag, <<"x", JunkGlyph>>, PaperTag, <<"x", JunkGlyph>> >>)}

NoReturn == [returned |-> FALSE, paths |-> <<>>]

InitPipe ==
    /\ IdleNorm /\ IdleKey /\ IdleGen
    /\ IdleExt
    /\ getRaised \in BOOLEAN
    /\ stage = "received"
    /\ files \in SeqsUpTo(UploadKinds, MaxFiles)
    /\ pnum \in PipeNumMocks
    /\ pkey \in BOOLEAN
    /\ dirMade = FALSE /\ fs = {} /\ saved_paths = <<>> /\ booted = FALSE
    /\ extracted = <<>> /\ all_plain = <<>> /\ reference_text = <<>>
    /\ llm = 0 /\ mock_pairs = <<>> /\ generated_paths = <<>>
    /\ ret = NoReturn /\ err = "none"

\* the loop that saves the uploads: a file-like object is written to
\* out / upload_{len(saved_paths)}{ext}, a path is kept as it is
RECURSIVE SaveUploads(_, _)
SaveUploads(fls, saved) ==
    IF fls = <<>> THEN saved
    ELSE LET f == Head(fls) IN
         SaveUploads(Tail(fls),
             Append(saved,
                 [path    |-> IF f.filelike THEN OutFile("upload", Len(saved), f.ext)
                              ELSE <<"given", "path", Len(saved), f.ext>>,
                  written |-> f.filelike,
                  ext     |-> f.ext,
                  content |-> f.content]))

\* a variant without the check of `if not saved_paths`
ReceiveNoEmptyCheck ==
    /\ stage = "received"
    /\ dirMade' = TRUE
    /\ saved_paths' = SaveUploads(files, <<>>)
    /\ fs' = fs \cup {sp.path : sp \in {x \in Range(saved_paths') : x.written}}
    /\ stage' = "extracting"
    /\ UNCHANGED <<files, pnum, pkey, booted, extracted, all_plain, reference_text, llm,
                   mock_pairs, generated_paths, ret, err,
                   getRaised, varsNorm, varsKey, varsGen, varsExt>>

\* lines 48-68: make the working directory, save the uploads, refuse an empty set
Receive ==
    /\ stage = "received"
    /\ dirMade' = TRUE
    /\ saved_paths' = SaveUploads(files, <<>>)
    /\ fs' = fs \cup {sp.path : sp \in {x \in Range(saved_paths') : x.written}}
    /\ IF saved_paths' = <<>>
       THEN stage' = "failed" /\ err' = "No input files provided for processing."
       ELSE stage' = "extracting" /\ err' = err
    /\ UNCHANGED <<files, pnum, pkey, booted, extracted, all_plain, reference_text, llm,
                   mock_pairs, generated_paths, ret,
                   getRaised, varsNorm, varsKey, varsGen, varsExt>>

\* lines 70-72: ensure_easyocr_weights() builds a reader, or raises
Bootstrap ==
    /\ stage = "extracting" /\ ~booted
    /\ booted' = TRUE
    /\ UNCHANGED <<stage, files, pnum, pkey, dirMade, fs, saved_paths, extracted, all_plain,
                   reference_text, llm, mock_pairs, generated_paths, ret, err,
                   getRaised, varsNorm, varsKey, varsGen, varsExt>>

BootstrapRaise ==
    /\ stage = "extracting" /\ ~booted
    /\ stage' = "failed"
    /\ err' = "ensure_easyocr_weights raised"
    /\ UNCHANGED <<files, pnum, pkey, dirMade, fs, saved_paths, booted, extracted, all_plain,
                   reference_text, llm, mock_pairs, generated_paths, ret,
                   getRaised, varsNorm, varsKey, varsGen, varsExt>>

\* the file papers_to_clean_text is about to look at
NextFile == saved_paths[Len(extracted) + 1]

InExtractLoop == stage = "extracting" /\ booted /\ Len(extracted) < Len(saved_paths)

\* papers_to_clean_text, one pass of `for f in files`: the text of a PDF or
\* DOCX is extracted and kept if it is not blank
ExtractFile ==
    /\ InExtractLoop
    /\ NextFile.ext \in SupportedExts
    /\ NextFile.content \notin {"scanned", "corrupt"}
    /\ extracted' = Append(extracted, Len(extracted) + 1)
    /\ all_plain' = IF NextFile.content = "text" THEN Append(all_plain, "t") ELSE all_plain
    /\ UNCHANGED <<stage, files, pnum, pkey, dirMade, fs, saved_paths, booted, reference_text,
                   llm, mock_pairs, generated_paths, ret, err,
                   getRaised, varsNorm, varsKey, varsGen, varsExt>>

\* _extract_text_from_pdf raises: the file cannot be opened, or a page has no
\* native text and get_ocr_engine(lang) is called without its second argument
ExtractRaise ==
    /\ InExtractLoop
    /\ NextFile.ext \in SupportedExts
    /\ NextFile.content \in {"scanned", "corrupt"}
    /\ extracted' = Append(extracted, Len(extracted) + 1)
    /\ stage' = "failed"
    /\ err' = "extraction raised"
    /\ UNCHANGED <<files, pnum, pkey, dirMade, fs, saved_paths, booted, all_plain,
                   reference_text, llm, mock_pairs, generated_paths, ret,
                   getRaised, varsNorm, varsKey, varsGen, varsExt>>

\* raise ValueError(f"Unsupported file type: {p.suffix}")
ExtractUnsupported ==
    /\ InExtractLoop
    /\ NextFile.ext \notin SupportedExts
    /\ stage' = "failed"
    /\ err' = "Unsupported file type: " \o NextFile.ext
    /\ UNCHANGED <<files, pnum, pkey, dirMade, fs, saved_paths, booted, extracted, all_plain,
                   reference_text, llm, mock_pairs, generated_paths, ret,
                   getRaised, varsNorm, varsKey, varsGen, varsExt>>

\* what papers_to_clean_text writes to reference_concat.txt
ConcatWritten(plain) == IF plain # <<>> THEN plain ELSE <<EmptyDocMarker>>

\* the end of papers_to_clean_text (both artifacts are written) and lines 82-93:
\* the text artifact is read back and refused if it is blank
FinishExtraction ==
    /\ stage = "extracting" /\ booted /\ Len(extracted) = Len(saved_paths)
    /\ fs' = fs \cup {ConcatTxt, ConcatHtml}
    /\ reference_text' = ConcatWritten(all_plain)
    /\ IF reference_text' = <<>>
       THEN stage' = "failed" /\ err' = "No text extracted from uploaded documents."
       ELSE stage' = "generating" /\ err' = err
    /\ UNCHANGED <<files, pnum, pkey, dirMade, saved_paths, booted, extracted, all_plain,
                   llm, mock_pairs, generated_paths, ret,
                   getRaised, varsNorm, varsKey, varsGen, varsExt>>

PipeStructOutcomes == IF pkey THEN PipeStructResponses ELSE {NoSResp}
PipeLegacyOutcomes == IF pkey THEN PipeLegacyResponses ELSE {NoLResp}

\* a variant without the check of `if not mock_pairs`
GenerateNoEmptyCheck ==
    /\ stage = "generating"
    /\ \E sr \in PipeStructOutcomes, lr \in PipeLegacyOutcomes :
          \E g \in {GenerateMockPapers(pnum, pkey, sr, lr, getRaised)} :
          /\ g.status = "ok"
          /\ llm' = llm + g.calls
          /\ mock_pairs' = g.result
    /\ stage' = "rendering"
    /\ UNCHANGED <<files, pnum, pkey, dirMade, fs, saved_paths, booted, extracted, all_plain,
                   reference_text, generated_paths, ret, err,
                   getRaised, varsNorm, varsKey, varsGen, varsExt>>

\* lines 96-104: generate_mock_papers returns a non-empty list
Generate ==
    /\ stage = "generating"
    /\ \E sr \in PipeStructOutcomes, lr \in PipeLegacyOutcomes :
          \E g \in {GenerateMockPapers(pnum, pkey, sr, lr, getRaised)} :
          /\ g.status = "ok"
          /\ g.result # <<>>
          /\ llm' = llm + g.calls
          /\ mock_pairs' = g.result
    /\ stage' = "rendering"
    /\ UNCHANGED <<files, pnum, pkey, dirMade, fs, saved_paths, booted, extracted, all_plain,
                   reference_text, generated_paths, ret, err,
                   getRaised, varsNorm, varsKey, varsGen, varsExt>>

\* generate_mock_papers returns an empty list: "returned no results"
GenerateEmpty ==
    /\ stage = "generating"
    /\ \E sr \in PipeStructOutcomes, lr \in PipeLegacyOutcomes :
          \E g \in {GenerateMockPapers(pnum, pkey, sr, lr, getRaised)} :
          /\ g.status = "ok"
          /\ g.result = <<>>
          /\ llm' = llm + g.calls
    /\ stage' = "failed"
    /\ err' = "Mock paper generation returned no results."
    /\ UNCHANGED <<files, pnum, pkey, dirMade, fs, saved_paths, booted, extracted, all_plain,
                   reference_text, mock_pairs, generated_paths, ret,
                   getRaised, varsNorm, varsKey, varsGen, varsExt>>

\* generate_mock_papers raises
GenerateRaise ==
    /\ stage = "generating"
    /\ \E sr \in PipeStructOutcomes, lr \in PipeLegacyOutcomes :
          \E g \in {GenerateMockPapers(pnum, pkey, sr, lr, getRaised)} :
          /\ g.status = "raise"
          /\ llm' = llm + g.calls
    /\ stage' = "failed"
    /\ err' = "generate_mock_papers raised"
    /\ UNCHANGED <<files, pnum, pkey, dirMade, fs, saved_paths, booted, extracted, all_plain,
                   reference_text, mock_pairs, generated_paths, ret,
                   getRaised, varsNorm, varsKey, varsGen, varsExt>>

\* the variant being rendered: enumerate(mock_pairs, start=1)
RenderIdx == (Len(generated_paths) \div 2) + 1

InRenderLoop == stage = "rendering" /\ RenderIdx <= Len(mock_pairs)

\* lines 112-118: build_mockpaper_pdf writes mock_{idx}.pdf
RenderPaper ==
    /\ InRenderLoop
    /\ PaperPdf(RenderIdx) \notin fs
    /\ fs' = fs \cup {PaperPdf(RenderIdx)}
    /\ UNCHANGED <<stage, files, pnum, pkey, dirMade, saved_paths, booted, extracted, all_plain,
                   reference_text, llm, mock_pairs, generated_paths, ret, err,
                   getRaised, varsNorm, varsKey, varsGen, varsExt>>

\* lines 119-127: build_mockpaper_pdf writes mock_{idx}_answers.pdf, then
\* generated_paths.extend([paper_pdf, answers_pdf])
RenderAnswers ==
    /\ InRenderLoop
    /\ PaperPdf(RenderIdx) \in fs
    /\ fs' = fs \cup {AnswersPdf(RenderIdx)}
    /\ generated_paths' = generated_paths \o <<PaperPdf(RenderIdx), AnswersPdf(RenderIdx)>>
    /\ UNCHANGED <<stage, files, pnum, pkey, dirMade, saved_paths, booted, extracted, all_plain,
                   reference_text, llm, mock_pairs, ret, err,
                   getRaised, varsNorm, varsKey, varsGen, varsExt>>

\* a variant that swallows the error and returns the paths built so far
RenderRaiseReturnsPartial ==
    /\ InRenderLoop
    /\ stage' = "complete"
    /\ ret' = [returned |-> TRUE, paths |-> generated_paths]
    /\ UNCHANGED <<files, pnum, pkey, dirMade, fs, saved_paths, booted, extracted, all_plain,
                   reference_text, llm, mock_pairs, generated_paths, err,
                   getRaised, varsNorm, varsKey, varsGen, varsExt>>

\* either build_mockpaper_pdf call raises: the exception leaves the pipeline
RenderRaise ==
    /\ InRenderLoop
    /\ stage' = "failed"
    /\ err' = "build_mockpaper_pdf raised"
    /\ UNCHANGED <<files, pnum, pkey, dirMade, fs, saved_paths, booted, extracted, all_plain,
                   reference_text, llm, mock_pairs, generated_paths, ret,
                   getRaised, varsNorm, varsKey, varsGen, varsExt>>

\* line 129: return generated_paths, concat_txt_path, str(out)
PipelineReturn ==
    /\ stage = "rendering" /\ RenderIdx > Len(mock_pairs)
    /\ stage' = "complete"
    /\ ret' = [returned |-> TRUE, paths |-> generated_paths]
    /\ UNCHANGED <<files, pnum, pkey, dirMade, fs, saved_paths, booted, extracted, all_plain,
                   reference_text, llm, mock_pairs, generated_paths, err,
                   getRaised, varsNorm, varsKey, varsGen, varsExt>>

Next ==
    \/ Receive \/ Bootstrap \/ BootstrapRaise
    \/ ExtractFile \/ ExtractRaise \/ ExtractUnsupported \/ FinishExtraction
    \/ Generate \/ GenerateEmpty \/ GenerateRaise
    \/ RenderPaper \/ RenderAnswers \/ RenderRaise \/ PipelineReturn

Spec == InitPipe /\ [][Next]_vars

(***************************************************************************)
(* SpecPdf: one call of _extract_text_from_pdf                             *)
(***************************************************************************)
\* a page: its native text layer after strip() ("" when there is none) and
\* what the engine recognises on its image: a text, nothing, or an error
PdfPage(native, scan) == [native |-> native, scan |-> scan]

PdfPages == {PdfPage(n, sc) : n \in {"", "a", "b"}, sc \in {"s", "t", "nothing", "error"}}

\* def get_ocr_engine(engine_name: str, lang: str): two required parameters
GetOcrEngineParams == 2
\* reader = get_ocr_engine(lang): one argument
GetOcrEngineArgs == 1

InitPdf ==
    /\ IdleNorm /\ IdleKey /\ IdleGen /\ IdlePipe /\ getRaised = FALSE
    /\ IdleApp /\ IdleOcr /\ IdleConf /\ IdleMore
    /\ xpc = "open"
    /\ pages \in SeqsUpTo(PdfPages, MaxPages)
    /\ pidx = 0 /\ text_blocks = <<>> /\ reader = "None"

\* doc = fitz.open(path)
OpenPdf ==
    /\ xpc = "open"
    /\ xpc' = "loop"
    /\ UNCHANGED <<pages, pidx, text_blocks, reader, varsCore, varsApp, varsOcr, varsConf, varsMore>>

\* fitz.open(path) raises
OpenPdfRaise ==
    /\ xpc = "open"
    /\ xpc' = "open_raised"
    /\ UNCHANGED <<pages, pidx, text_blocks, reader, varsCore, varsApp, varsOcr, varsConf, varsMore>>

\* lines 75-79: the page has native text, which is appended
PageNative ==
    /\ xpc = "loop" /\ pidx < Len(pages)
    /\ pages[pidx + 1].native # ""
    /\ text_blocks' = Append(text_blocks, pages[pidx + 1].native)
    /\ pidx' = pidx + 1
    /\ UNCHANGED <<xpc, pages, reader, varsCore, varsApp, varsOcr, varsConf, varsMore>>

\* lines 82-83: the page has no native text and no reader was made yet;
\* get_ocr_engine is called with an argument missing and raises TypeError
PageEngineRaise ==
    /\ xpc = "loop" /\ pidx < Len(pages)
    /\ pages[pidx + 1].native = ""
    /\ reader = "None"
    /\ GetOcrEngineArgs < GetOcrEngineParams
    /\ xpc' = "raised"
    /\ UNCHANGED <<pages, pidx, text_blocks, reader, varsCore, varsApp, varsOcr, varsConf, varsMore>>

\* return "\n".join(text_blocks)
PdfReturn ==
    /\ xpc = "loop" /\ pidx = Len(pages)
    /\ xpc' = "returned"
    /\ UNCHANGED <<pages, pidx, text_blocks, reader, varsCore, varsApp, varsOcr, varsConf, varsMore>>

NextPdf == OpenPdf \/ OpenPdfRaise \/ PageNative \/ PageEngineRaise \/ PdfReturn

SpecPdf == InitPdf /\ [][NextPdf]_vars

(***************************************************************************)
(* SpecApp: the /generate endpoint over the requests of one process.  A    *)
(* credential is a string of tokens: " ", the words "string" and "String", *)
(* and the key words "k1", "k2", "d".                                      *)
(***************************************************************************)
\* str.lower() on a credential
CredLower(cs) == [i \in 1..Len(cs) |-> IF cs[i] = "String" THEN "string" ELSE cs[i]]

\* the openai_api_key form field: absent, or a string
CredInputs ==
    {NoneVal, StrVal(<<>>), StrVal(<<" ">>), StrVal(<<"string">>), StrVal(<<" ", "String">>),
     StrVal(<<"k1">>), StrVal(<<" ", "k2", " ">>)}

\* OPENAI_API_KEY in the environment when the process starts (after load_dotenv)
EnvInputs == {<<>>, <<"d">>}

\* app.py 90: openai_api_key and openai_api_key.strip().lower() != "string"
FormKeyTaken(v) == v.kind = "str" /\ v.s # <<>> /\ CredLower(Strip(v.s)) # <<"string">>

\* app.py 90-93: the key of the request
ResolvedKey(v, env) == IF FormKeyTaken(v) THEN Strip(v.s) ELSE Strip(env)

\* configure_openai(api_key): (api_key or os.environ.get("OPENAI_API_KEY") or "").strip()
ConfigureOpenai(api_key, env) == Strip(IF api_key # <<>> THEN api_key ELSE env)

InitApp ==
    /\ IdleNorm /\ IdleKey /\ IdleGen /\ IdlePipe /\ getRaised = FALSE
    /\ IdlePdf /\ IdleOcr /\ IdleConf /\ IdleMore
    /\ apc = "idle"
    /\ env0 \in EnvInputs
    /\ environ = env0
    /\ reqno = 0 /\ form_key = NoneVal /\ reqkey = <<>> /\ reply = "none"
    /\ used = {} /\ readers = 0

\* app.py 66-87: a request arrives and its upload is saved
NewRequest ==
    /\ apc \in {"idle", "done"}
    /\ reqno < MaxRequests
    /\ reqno' = reqno + 1
    /\ form_key' \in CredInputs
    /\ reqkey' = <<>> /\ reply' = "none" /\ used' = {}
    /\ apc' = "resolve"
    /\ UNCHANGED <<environ, env0, readers, varsCore, varsPdf, varsOcr, varsConf, varsMore>>

\* a variant of the key resolution that prefers the environment
ResolveEnvFirst ==
    /\ apc = "resolve"
    /\ ResolvedKey(form_key, environ) # <<>>
    /\ reqkey' = (IF Strip(environ) # <<>> THEN Strip(environ) ELSE Strip(form_key.s))
    /\ environ' = reqkey'
    /\ apc' = "pipeline"
    /\ UNCHANGED <<env0, reqno, form_key, reply, used, readers,
                   varsCore, varsPdf, varsOcr, varsConf, varsMore>>

\* app.py 89-100: a key is found and written to os.environ["OPENAI_API_KEY"]
ResolveKey ==
    /\ apc = "resolve"
    /\ ResolvedKey(form_key, environ) # <<>>
    /\ reqkey' = ResolvedKey(form_key, environ)
    /\ environ' = reqkey'
    /\ apc' = "pipeline"
    /\ UNCHANGED <<env0, reqno, form_key, reply, used, readers,
                   varsCore, varsPdf, varsOcr, varsConf, varsMore>>

\* app.py 95-99: no key: the 400 response "OPENAI_API_KEY missing"
ResolveMissing ==
    /\ apc = "resolve"
    /\ ResolvedKey(form_key, environ) = <<>>
    /\ reply' = "400"
    /\ apc' = "done"
    /\ UNCHANGED <<environ, env0, reqno, form_key, reqkey, used, readers,
                   varsCore, varsPdf, varsOcr, varsConf, varsMore>>

\* app.py 103-118, pipeline.py 70-72: ensure_easyocr_weights raises while it
\* builds its reader
PipelineBootRaise ==
    /\ apc = "pipeline"
    /\ reply' = "500"
    /\ apc' = "done"
    /\ UNCHANGED <<environ, env0, reqno, form_key, reqkey, used, readers,
                   varsCore, varsPdf, varsOcr, varsConf, varsMore>>

\* ensure_easyocr_weights builds a reader, then extraction raises: no service call
PipelineExtractRaise ==
    /\ apc = "pipeline"
    /\ readers' = readers + 1
    /\ reply' = "500"
    /\ apc' = "done"
    /\ UNCHANGED <<environ, env0, reqno, form_key, reqkey, used,
                   varsCore, varsPdf, varsOcr, varsConf, varsMore>>

\* ensure_easyocr_weights builds a reader, the text is extracted, and
\* generate_mock_papers(api_key=key) calls the service with the client of
\* configure_openai; the request ends with the zip or with a pipeline error
PipelineGenerates ==
    /\ apc = "pipeline"
    /\ readers' = readers + 1
    /\ used' = {ConfigureOpenai(reqkey, environ)}
    /\ reply' \in {"zip", "500"}
    /\ apc' = "done"
    /\ UNCHANGED <<environ, env0, reqno, form_key, reqkey,
                   varsCore, varsPdf, varsOcr, varsConf, varsMore>>

NextApp ==
    \/ NewRequest \/ ResolveKey \/ ResolveMissing
    \/ PipelineBootRaise \/ PipelineExtractRaise \/ PipelineGenerates

SpecApp == InitApp /\ [][NextApp]_vars

(***************************************************************************)
(* SpecOcr: threads of one process calling init_easyocr_reader.  The       *)
(* statements of the function are separate steps: nothing in it holds a    *)
(* lock.  An engine is named by its position in the list of constructions. *)
(***************************************************************************)
\* (tuple(lang_list), use_gpu, str(storage_dir)) with PAPERS_OCR_EPHEMERAL unset
OcrKeys == {<< <<"en">>, FALSE, "models">>, << <<"en">>, TRUE, "models">>}

Threads == 1..MaxThreads

ThreadAt(pc, k, eng, n) == [pc |-> pc, key |-> k, eng |-> eng, calls |-> n]

\* key in _EASYOCR_CACHE
InCache(k) == \E c \in cache : c[1] = k

\* _EASYOCR_CACHE[key]
CacheGet(k) == (CHOOSE c \in cache : c[1] = k)[2]

\* _EASYOCR_CACHE[key] = reader
CachePut(k, eng) == {c \in cache : c[1] # k} \cup {<<k, eng>>}

InitOcr ==
    /\ IdleNorm /\ IdleKey /\ IdleGen /\ IdlePipe /\ getRaised = FALSE
    /\ IdlePdf /\ IdleApp /\ IdleConf /\ IdleMore
    /\ cache = {}
    /\ tpc = [t \in Threads |-> ThreadAt("idle", <<>>, 0, 0)]
    /\ tret = [t \in Threads |-> 0]
    /\ built = <<>>

\* ocr.py 65-70: a thread enters init_easyocr_reader and computes the key
CallInit ==
    \E t \in Threads, k \in OcrKeys :
        /\ tpc[t].pc = "idle"
        /\ tpc[t].calls < MaxCalls
        /\ tpc' = [tpc EXCEPT ![t] = ThreadAt("lookup", k, 0, tpc[t].calls + 1)]
        /\ tret' = [tret EXCEPT ![t] = 0]
        /\ UNCHANGED <<cache, built, varsCore, varsPdf, varsApp, varsConf, varsMore>>

\* ocr.py 71-72: the key is in the cache: the cached reader is returned
LookupHit ==
    \E t \in Threads :
        /\ tpc[t].pc = "lookup"
        /\ InCache(tpc[t].key)
        /\ tret' = [tret EXCEPT ![t] = CacheGet(tpc[t].key)]
        /\ tpc' = [tpc EXCEPT ![t].pc = "idle"]
        /\ UNCHANGED <<cache, built, varsCore, varsPdf, varsApp, varsConf, varsMore>>

\* ocr.py 71: the key is not in the cache
LookupMiss ==
    \E t \in Threads :
        /\ tpc[t].pc = "lookup"
        /\ ~InCache(tpc[t].key)
        /\ tpc' = [tpc EXCEPT ![t].pc = "build"]
        /\ UNCHANGED <<cache, tret, built, varsCore, varsPdf, varsApp, varsConf, varsMore>>

\* ocr.py 74-81: easyocr.Reader(...) constructs an engine
BuildReader ==
    \E t \in Threads :
        /\ tpc[t].pc = "build"
        /\ built' = Append(built, tpc[t].key)
        /\ tpc' = [tpc EXCEPT ![t].pc = "insert", ![t].eng = Len(built) + 1]
        /\ UNCHANGED <<cache, tret, varsCore, varsPdf, varsApp, varsConf, varsMore>>

\* ocr.py 82-83: the reader is stored under the key and returned
InsertReader ==
    \E t \in Threads :
        /\ tpc[t].pc = "insert"
        /\ cache' = CachePut(tpc[t].key, tpc[t].eng)
        /\ tret' = [tret EXCEPT ![t] = tpc[t].eng]
        /\ tpc' = [tpc EXCEPT ![t].pc = "idle"]
        /\ UNCHANGED <<built, varsCore, varsPdf, varsApp, varsConf, varsMore>>

NextOcr == CallInit \/ LookupHit \/ LookupMiss \/ BuildReader \/ InsertReader

SpecOcr == InitOcr /\ [][NextOcr]_vars

(***************************************************************************)
(* SpecConf: ocr_image_easy and ocr_image_paddle applied twice to one      *)
(* engine result, at two thresholds.  Texts are strings over "O", "l",     *)
(* " " and "a"; a confidence is a number of tenths; a bounding box is its  *)
(* first corner <<x, y>>.                                                  *)
(***************************************************************************)
\* the replacements of _normalize_math_text that apply to the texts above
MathGlyph(c) == IF c = "O" THEN "0" ELSE IF c = "l" THEN "1" ELSE c

\* re.sub(r"\s+", " ", text)
RECURSIVE CollapseSpaces(_)
CollapseSpaces(s) ==
    IF s = <<>> THEN <<>>
    ELSE IF Head(s) \in Whitespace
         THEN <<" ">> \o CollapseSpaces(LStrip(s))
         ELSE <<Head(s)>> \o CollapseSpaces(Tail(s))

\* _normalize_math_text
NormalizeMathText(s) == Strip(CollapseSpaces([i \in 1..Len(s) |-> MathGlyph(s[i])]))

OcrBoxes == {<< <<1, 1>> >>, << <<0, 1>> >>, << <<0, 2>> >>}
OcrTexts == {<<>>, <<" ">>, <<"O">>, <<"a", " ">>}
ConfLevels == 1..2
Thresholds == 1..3

\* what an engine reports for one detection; "short" is an entry without a
\* confidence (EasyOCR) or without its (text, confidence) part (PaddleOCR)
Detection(bbox, text, conf) == [shape |-> "full", bbox |-> bbox, text |-> text, conf |-> conf]
ShortDetection == [shape |-> "short", bbox |-> << <<0, 1>> >>, text |-> <<>>, conf |-> 0]
Detections ==
    {Detection(b, t, c) : b \in OcrBoxes, t \in {<<"O">>, <<"a", " ">>}, c \in ConfLevels}
        \cup {Detection(<< <<0, 1>> >>, t, 2) : t \in OcrTexts}
        \cup {ShortDetection}

\* the entry of the returned list for a detection
Token(d) == [bbox |-> d.bbox, text |-> NormalizeMathText(d.text), conf |-> d.conf]

\* a filter that keeps the detections below the threshold
PassesBelow(d, conf_threshold) ==
    ~(NormalizeMathText(d.text) = <<>> \/ ~(d.conf < conf_threshold))

\* ocr.py 176-177, 200-201, 206-207: not (not text or conf < conf_threshold)
Passes(d, conf_threshold) ==
    ~(NormalizeMathText(d.text) = <<>> \/ d.conf < conf_threshold)

\* the loop over well-formed detections: out.append(...) for those that pass
RECURSIVE FilterLoop(_, _)
FilterLoop(ds, conf_threshold) ==
    IF ds = <<>> THEN <<>>
    ELSE (IF Head(ds).shape = "full" /\ Passes(Head(ds), conf_threshold)
          THEN <<Token(Head(ds))>> ELSE <<>>) \o FilterLoop(Tail(ds), conf_threshold)

\* the sort key (x["bbox"][0][1], x["bbox"][0][0]) and its tuple order
KeyBefore(a, b) ==
    \/ a.bbox[1][2] < b.bbox[1][2]
    \/ a.bbox[1][2] = b.bbox[1][2] /\ a.bbox[1][1] < b.bbox[1][1]

\* insertion behind the entries that are not after it (sorted() is stable)
RECURSIVE InsertSorted(_, _)
InsertSorted(out, tok) ==
    IF out = <<>> THEN <<tok>>
    ELSE IF KeyBefore(tok, Head(out)) THEN <<tok>> \o out
         ELSE <<Head(out)>> \o InsertSorted(Tail(out), tok)

\* _sort_by_coordinates
RECURSIVE SortByCoordinates(_)
SortByCoordinates(out) ==
    IF out = <<>> THEN <<>>
    ELSE InsertSorted(SortByCoordinates(SubSeq(out, 1, Len(out) - 1)), out[Len(out)])

Returned(out) == [raised |-> FALSE, out |-> out]
Raised == [raised |-> TRUE, out |-> <<>>]

\* ocr_image_easy after readtext: an entry that does not unpack is skipped
OcrImageEasy(body, conf_threshold) ==
    Returned(SortByCoordinates(FilterLoop(body, conf_threshold)))

AllFull(ds) == \A i \in 1..Len(ds) : ds[i].shape = "full"

\* ocr_image_paddle after ocr.ocr.  A result of pages of detections goes
\* through the nested loop; an entry that does not unpack sends it to the flat
\* loop, which cannot unpack a page and raises.  A flat result fails the nested
\* loop at its first entry, before anything is appended, and goes through the
\* flat loop, which raises at an entry that does not unpack.
OcrImagePaddle(fmt, body, conf_threshold) ==
    IF fmt = "pages"
    THEN IF AllFull(Flatten(body))
         THEN Returned(SortByCoordinates(FilterLoop(Flatten(body), conf_threshold)))
         ELSE Raised
    ELSE IF AllFull(body[1])
         THEN Returned(SortByCoordinates(FilterLoop(body[1], conf_threshold)))
         ELSE Raised

\* an engine result: "items" and "flat" results are one list of detections,
\* held here as the only element of body; a "pages" result is a list of pages
EngineResult(fmt, body) == [fmt |-> fmt, body |-> body]

EasyResults == {EngineResult("items", <<b>>) : b \in SeqsUpTo(Detections, MaxItems)}

PaddleResults ==
    {EngineResult("pages", <<b>>) : b \in SeqsUpTo(Detections, MaxItems)}
        \cup {EngineResult("pages", <<b, c>>) : b, c \in SeqsUpTo(Detections, 1)}
        \cup {EngineResult("flat", <<b>>) : b \in SeqsUpTo(Detections, MaxItems)}

InitConf ==
    /\ IdleNorm /\ IdleKey /\ IdleGen /\ IdlePipe /\ getRaised = FALSE
    /\ IdlePdf /\ IdleApp /\ IdleOcr /\ IdleMore
    /\ fpc = "run"
    /\ engine \in {"easy", "paddle"}
    /\ res \in (IF engine = "easy" THEN EasyResults ELSE PaddleResults)
    /\ thr \in {<<t1, t2>> : t1 \in Thresholds, t2 \in Thresholds}
    /\ thr[1] <= thr[2]
    /\ outs = <<>>

AfterRun(n) == IF n = 2 THEN "done" ELSE "run"

\* ocr.py 171-182: ocr_image_easy filters the result at the next threshold
RunEasy ==
    /\ fpc = "run" /\ engine = "easy"
    /\ outs' = Append(outs, OcrImageEasy(res.body[1], thr[Len(outs) + 1]))
    /\ fpc' = AfterRun(Len(outs) + 1)
    /\ UNCHANGED <<engine, res, thr, varsCore, varsPdf, varsApp, varsOcr, varsMore>>

\* ocr.py 194-211: ocr_image_paddle filters the result at the next threshold
RunPaddle ==
    /\ fpc = "run" /\ engine = "paddle"
    /\ outs' = Append(outs, OcrImagePaddle(res.fmt, res.body, thr[Len(outs) + 1]))
    /\ fpc' = AfterRun(Len(outs) + 1)
    /\ UNCHANGED <<engine, res, thr, varsCore, varsPdf, varsApp, varsOcr, varsMore>>

NextConf == RunEasy \/ RunPaddle

SpecConf == InitConf /\ [][NextConf]_vars

(***************************************************************************)
(* SpecUni: normalize_unicode_math on one text.  A character is its code   *)
(* point, a text a sequence of code points.                                *)
(***************************************************************************)
IsHexDigit(c) == c \in 48..57 \/ c \in 65..70 \/ c \in 97..102

HexDigitValue(c) == IF c \in 48..57 THEN c - 48 ELSE IF c \in 65..70 THEN c - 55 ELSE c - 87

\* int(m.group(1), 16)
RECURSIVE HexValue(_)
HexValue(s) ==
    IF s = <<>> THEN 0 ELSE 16 * HexValue(SubSeq(s, 1, Len(s) - 1)) + HexDigitValue(s[Len(s)])

\* the number of hex digits [0-9A-Fa-f]{..6} takes at the head of s
RECURSIVE HexRun(_, _)
HexRun(s, most) ==
    IF most > 0 /\ s # <<>> /\ IsHexDigit(Head(s)) THEN 1 + HexRun(Tail(s), most - 1) ELSE 0

\* the replacement of one match "U+" and n hex digits at the head of s: chr of
\* the code point, or the match itself when chr raises (above U+10FFFF)
EscapeRepl(s, n) ==
    IF HexValue(SubSeq(s, 3, 2 + n)) <= 1114111
    THEN <<HexValue(SubSeq(s, 3, 2 + n))>>
    ELSE SubSeq(s, 1, 2 + n)

\* decode_unicode_escapes: re.sub(r"U\+([0-9A-Fa-f]{4,6})", repl, text)
RECURSIVE DecodeUnicodeEscapes(_)
DecodeUnicodeEscapes(s) ==
    IF s = <<>> THEN <<>>
    ELSE IF Len(s) >= 6 /\ s[1] = 85 /\ s[2] = 43 /\ HexRun(SubSeq(s, 3, Len(s)), 6) >= 4
         THEN EscapeRepl(s, HexRun(SubSeq(s, 3, Len(s)), 6))
                  \o DecodeUnicodeEscapes(SubSeq(s, 3 + HexRun(SubSeq(s, 3, Len(s)), 6), Len(s)))
         ELSE <<Head(s)>> \o DecodeUnicodeEscapes(Tail(s))

\* unicodedata.normalize("NFKD", ch) for the characters of UniPieces and what
\* the escapes built from them decode to; every other one of them is its own
\* decomposition
Nfkd(c) ==
    CASE c = 233  -> <<101, 769>>          \* e with acute: e, combining acute
      [] c = 178  -> <<50>>                \* superscript two: 2
      [] c = 189  -> <<49, 8260, 50>>      \* one half: 1, fraction slash, 2
      [] c = 8748 -> <<8747, 8747>>        \* double integral: two integrals
      [] c = 977  -> <<952>>               \* theta symbol: theta
      [] OTHER    -> <<c>>

\* unicodedata.combining(ch) is not 0
IsCombining(c) == c = 769

\* the replacements table: code point -> code point, 0 when ch is not a key
Replacement(c) ==
    CASE c \in {183, 215} -> 42
      [] c \in {247, 8260} -> 47
      [] c \in {8211, 8722, 8212} -> 45
      [] c \in {960, 952, 945, 946, 916, 948, 8730, 8721, 8747, 8734} -> c
      [] c \in {9632, 9646, 9608, 9642, 9643, 9724, 9726, 9725} -> 42
      [] OTHER -> 0

\* a variant of the loop body without the fallback: what no branch names is kept
NormalizeCharKeepAll(c) ==
    IF IsCombining(c) THEN <<>>
    ELSE IF Replacement(c) # 0 THEN <<Replacement(c)>>
    ELSE <<c>>

\* the body of the loop over the decomposed text: what ch adds to out_chars
NormalizeChar(c) ==
    IF IsCombining(c) THEN <<>>
    ELSE IF Replacement(c) # 0 THEN <<Replacement(c)>>
    ELSE IF 32 <= c /\ c < 127 THEN <<c>>
    ELSE IF 8704 <= c /\ c <= 8959 THEN <<c>>
    ELSE IF 945 <= c /\ c <= 969 THEN <<c>>
    ELSE IF 913 <= c /\ c <= 937 THEN <<c>>
    ELSE <<42>>

NfkdText(s) == Flatten([i \in 1..Len(s) |-> Nfkd(s[i])])

\* normalize_unicode_math(text)
NormalizeUnicodeMathText(s) ==
    IF s = <<>> THEN s
    ELSE Flatten([i \in 1..Len(NfkdText(DecodeUnicodeEscapes(s))) |->
                     NormalizeChar(NfkdText(DecodeUnicodeEscapes(s))[i])])

\* the pieces texts are made of: A, tab, e-acute, superscript two, the
\* multiplication sign, pi, root, less-or-equal, a black square, a CJK
\* ideograph, one half, the double integral, the theta symbol, an arrow, and
\* the escape "U+25A0"
UniPieces ==
    {<<65>>, <<9>>, <<233>>, <<178>>, <<215>>, <<960>>, <<8730>>, <<8804>>, <<9632>>,
     <<20013>>, <<189>>, <<8748>>, <<977>>, <<8594>>, <<85, 43, 50, 53, 65, 48>>}

InitUni ==
    /\ IdleNorm /\ IdleKey /\ IdleGen /\ IdlePipe /\ getRaised = FALSE
    /\ IdleMid /\ IdleJson /\ IdleExport /\ IdleBuild /\ IdleText
    /\ upc = "call"
    /\ utext \in {Flatten(ps) : ps \in SeqsUpTo(UniPieces, MaxPieces)}
    /\ uout = <<>>

\* llm_mockgen.py 62-109: the call returns the normalised text
UniReturn ==
    /\ upc = "call"
    /\ uout' = NormalizeUnicodeMathText(utext)
    /\ upc' = "returned"
    /\ UNCHANGED <<utext, varsCore, varsMid, varsJson, varsExport, varsBuild, varsText>>

NextUni == UniReturn

SpecUni == InitUni /\ [][NextUni]_vars

(***************************************************************************)
(* SpecJson: _extract_json on one service response.  A response is a       *)
(* sequence of characters: braces, newlines, spaces, letters, and "tick"   *)
(* for the backtick.                                                       *)
(***************************************************************************)
IsAsciiLetter(c) == c \in {"j", "x"}

RECURSIVE DropLetters(_)
DropLetters(s) == IF s # <<>> /\ IsAsciiLetter(Head(s)) THEN DropLetters(Tail(s)) ELSE s

DropNewline(s) == IF s # <<>> /\ Head(s) = "\n" THEN Tail(s) ELSE s

\* str.rstrip("`")
RECURSIVE RStripTicks(_)
RStripTicks(s) ==
    IF s # <<>> /\ s[Len(s)] = "tick" THEN RStripTicks(SubSeq(s, 1, Len(s) - 1)) ELSE s

StartsWithFence(s) == Len(s) >= 3 /\ SubSeq(s, 1, 3) = <<"tick", "tick", "tick">>

\* re.sub(r"^```[a-zA-Z]*\n?", "", s2), then .rstrip("`").rstrip()
StripFence(s) ==
    IF StartsWithFence(s)
    THEN RStrip(RStripTicks(DropNewline(DropLetters(SubSeq(s, 4, Len(s))))))
    ELSE s

FirstOpen(s) == CHOOSE a \in 1..Len(s) : s[a] = "{" /\ \A k \in 1..(a - 1) : s[k] # "{"
LastClose(s) == CHOOSE b \in 1..Len(s) : s[b] = "}" /\ \A k \in (b + 1)..Len(s) : s[k] # "}"

\* _JSON_OBJECT_RE.search(s2) matches: a "{" with a "}" somewhere behind it
ObjectFound(s) == \E a, b \in 1..Len(s) : a < b /\ s[a] = "{" /\ s[b] = "}"

\* m = re.compile(r"\{.*\}", re.S).search(s2); m.group(0) if m else s2: the
\* pattern is greedy, from the first "{" to the last "}"
SearchObject(s) ==
    IF ObjectFound(s) THEN SubSeq(s, FirstOpen(s), LastClose(s)) ELSE s

\* _extract_json(s)
ExtractJson(s) == SearchObject(StripFence(Strip(s)))

JsonAlphabet == {"{", "}", "x", " "}

Fence == <<"tick", "tick", "tick">>
FencePrefixes == {<<>>, Fence, Fence \o <<"\n">>, Fence \o <<"j", "\n">>}
FenceSuffixes == {<<>>, <<"\n">> \o Fence}

InitJson ==
    /\ IdleNorm /\ IdleKey /\ IdleGen /\ IdlePipe /\ getRaised = FALSE
    /\ IdleMid /\ IdleUni /\ IdleExport /\ IdleBuild /\ IdleText
    /\ jpc = "call"
    /\ jraw \in {pre \o body \o suf :
                    pre \in FencePrefixes, body \in SeqsUpTo(JsonAlphabet, MaxJsonLen),
                    suf \in FenceSuffixes}
    /\ jout = <<>>

\* llm_mockgen.py 289-297: the call returns the extracted text
JsonReturn ==
    /\ jpc = "call"
    /\ jout' = ExtractJson(jraw)
    /\ jpc' = "returned"
    /\ UNCHANGED <<jraw, varsCore, varsMid, varsUni, varsExport, varsBuild, varsText>>

NextJson == JsonReturn

SpecJson == InitJson /\ [][NextJson]_vars

(***************************************************************************)
(* SpecExport: one call of mock_export.build_mockpaper_pdf.  The flags say *)
(* which optional libraries were imported (_HAS_JINJA, _HAS_PLAYWRIGHT),   *)
(* whether the browser prints the page and whether ReportLab builds the    *)
(* document.                                                               *)
(***************************************************************************)
ExportTexts == {<<>>, <<"1. Q">>, <<"1. Q", "a. x", "b. y">>}

InitExport ==
    /\ IdleNorm /\ IdleKey /\ IdleGen /\ IdlePipe /\ getRaised = FALSE
    /\ IdleMid /\ IdleUni /\ IdleJson /\ IdleBuild /\ IdleText
    /\ epc = "call"
    /\ has_jinja \in BOOLEAN /\ has_playwright \in BOOLEAN
    /\ pdf_ok \in BOOLEAN /\ reportlab_ok \in BOOLEAN
    /\ etext \in ExportTexts
    /\ html_doc = <<>>
    /\ out_pdf = "none"

\* mock_export.py 358: body_html = _group_lines_into_html(text)
GroupLinesIntoHtml ==
    /\ epc = "call"
    /\ html_doc' = <<"body">> \o etext
    /\ epc' = "grouped"
    /\ UNCHANGED <<has_jinja, has_playwright, pdf_ok, reportlab_ok, etext, out_pdf,
                   varsCore, varsMid, varsUni, varsJson, varsBuild, varsText>>

\* mock_export.py 359, 239-242: _html_wrapper renders the template
HtmlWrapper ==
    /\ epc = "grouped"
    /\ has_jinja
    /\ html_doc' = <<"html">> \o html_doc
    /\ epc' = "wrapped"
    /\ UNCHANGED <<has_jinja, has_playwright, pdf_ok, reportlab_ok, etext, out_pdf,
                   varsCore, varsMid, varsUni, varsJson, varsBuild, varsText>>

\* mock_export.py 359, 240, 177-179: _mk_env raises RuntimeError without Jinja2;
\* nothing around the call catches it
HtmlWrapperRaise ==
    /\ epc = "grouped"
    /\ ~has_jinja
    /\ epc' = "raised"
    /\ UNCHANGED <<has_jinja, has_playwright, pdf_ok, reportlab_ok, etext, html_doc, out_pdf,
                   varsCore, varsMid, varsUni, varsJson, varsBuild, varsText>>

\* mock_export.py 361, 245-277: _html_to_pdf prints the page and returns True
HtmlToPdf ==
    /\ epc = "wrapped"
    /\ has_playwright /\ pdf_ok
    /\ out_pdf' = "html"
    /\ epc' = "printed"
    /\ UNCHANGED <<has_jinja, has_playwright, pdf_ok, reportlab_ok, etext, html_doc,
                   varsCore, varsMid, varsUni, varsJson, varsBuild, varsText>>

\* mock_export.py 246-247, 276-277: _html_to_pdf returns False: no Playwright,
\* or an exception inside the try block
HtmlToPdfFails ==
    /\ epc = "wrapped"
    /\ ~(has_playwright /\ pdf_ok)
    /\ epc' = "fallback"
    /\ UNCHANGED <<has_jinja, has_playwright, pdf_ok, reportlab_ok, etext, html_doc, out_pdf,
                   varsCore, varsMid, varsUni, varsJson, varsBuild, varsText>>

\* mock_export.py 362-363, 288-324: _reportlab_text_pdf writes the document
ReportlabTextPdf ==
    /\ epc = "fallback"
    /\ reportlab_ok
    /\ out_pdf' = "reportlab"
    /\ epc' = "printed"
    /\ UNCHANGED <<has_jinja, has_playwright, pdf_ok, reportlab_ok, etext, html_doc,
                   varsCore, varsMid, varsUni, varsJson, varsBuild, varsText>>

\* mock_export.py 363: doc.build raises and the error leaves the call
ReportlabRaise ==
    /\ epc = "fallback"
    /\ ~reportlab_ok
    /\ epc' = "raised"
    /\ UNCHANGED <<has_jinja, has_playwright, pdf_ok, reportlab_ok, etext, html_doc, out_pdf,
                   varsCore, varsMid, varsUni, varsJson, varsBuild, varsText>>

\* mock_export.py 365: return str(out_path)
ExportReturn ==
    /\ epc = "printed"
    /\ epc' = "returned"
    /\ UNCHANGED <<has_jinja, has_playwright, pdf_ok, reportlab_ok, etext, html_doc, out_pdf,
                   varsCore, varsMid, varsUni, varsJson, varsBuild, varsText>>

NextExport ==
    \/ GroupLinesIntoHtml \/ HtmlWrapper \/ HtmlWrapperRaise \/ HtmlToPdf \/ HtmlToPdfFails
    \/ ReportlabTextPdf \/ ReportlabRaise \/ ExportReturn

SpecExport == InitExport /\ [][NextExport]_vars

(***************************************************************************)
(* pdf_builder.build_mockpaper_pdf: the loop that turns the lines of a     *)
(* text into the flowables of the story.  A line is a sequence of          *)
(* characters.                                                             *)
(***************************************************************************)
AsciiLetters == Range(UpperLetters) \cup Range(LowerLetters)

RECURSIVE SkipDigits(_)
SkipDigits(s) == IF s # <<>> /\ Head(s) \in AsciiDigits THEN SkipDigits(Tail(s)) ELSE s

StartsWithDigit(s) == s # <<>> /\ Head(s) \in AsciiDigits

\* sub in s, as in Python's `sub in s`
Contains(s, sub) == \E k \in 0..(Len(s) - Len(sub)) : SubSeq(s, k + 1, k + Len(sub)) = sub

\* _ocr_normalize on the characters used here: a bullet becomes a full stop,
\* a multiplication sign a star
OcrNormalize(s) ==
    [k \in 1..Len(s) |-> IF s[k] = "bullet" THEN "." ELSE IF s[k] = "times" THEN "*" ELSE s[k]]

\* prettify_ascii_math on the characters used here: "*" becomes a middle dot,
\* "^2" a superscript two, and braces and square brackets are removed
RECURSIVE PrettifyAsciiMath(_)
PrettifyAsciiMath(s) ==
    IF s = <<>> THEN <<>>
    ELSE IF Head(s) = "*" THEN <<"middot">> \o PrettifyAsciiMath(Tail(s))
    ELSE IF Head(s) = "^" /\ Len(s) >= 2 /\ s[2] = "2"
         THEN <<"sup2">> \o PrettifyAsciiMath(SubSeq(s, 3, Len(s)))
    ELSE IF Head(s) \in {"{", "}", "[", "]"} THEN PrettifyAsciiMath(Tail(s))
    ELSE <<Head(s)>> \o PrettifyAsciiMath(Tail(s))

\* re.match(r"^\s*\d+\.\s*[A-Za-z]", line)
SectionRe(line) ==
    /\ StartsWithDigit(LStrip(line))
    /\ SkipDigits(LStrip(line)) # <<>>
    /\ Head(SkipDigits(LStrip(line))) = "."
    /\ LStrip(Tail(SkipDigits(LStrip(line)))) # <<>>
    /\ Head(LStrip(Tail(SkipDigits(LStrip(line))))) \in AsciiLetters

\* not line.lower().startswith(("q", "q1", "q2"))
NotStartsWithQ(line) == ~(line # <<>> /\ LowerChar(Head(line)) = "q")

\* the second alternative of the question pattern: \(?\d+\)?[.)]
NumberedRe(s) ==
    /\ StartsWithDigit(IF s # <<>> /\ Head(s) = "(" THEN Tail(s) ELSE s)
    /\ SkipDigits(IF s # <<>> /\ Head(s) = "(" THEN Tail(s) ELSE s) # <<>>
    /\ Head(SkipDigits(IF s # <<>> /\ Head(s) = "(" THEN Tail(s) ELSE s)) \in {".", ")"}

\* re.match(r"^\s*(?:q\s*\d+|\(?\d+\)?[.)])", line, flags=re.I)
QuestionRe(line) ==
    \/ /\ LStrip(line) # <<>>
       /\ LowerChar(Head(LStrip(line))) = "q"
       /\ StartsWithDigit(LStrip(Tail(LStrip(line))))
    \/ NumberedRe(LStrip(line))

\* re.match(r"^[a-d]\.", line, flags=re.I)
OptionRe(line) == Len(line) >= 2 /\ LowerChar(line[1]) \in McqLetters /\ line[2] = "."

\* "mark" in line.lower()
HasMark(line) == Contains(Lower(line), <<"m", "a", "r", "k">>)

\* re.match(r"^\|.+\|$", line)
TableRe(line) == Len(line) >= 3 /\ line[1] = "|" /\ line[Len(line)] = "|"

\* re.match(r"^\s*(?:\d+\s*[.)])", line)
AnswerNumberRe(line) ==
    /\ StartsWithDigit(LStrip(line))
    /\ LStrip(SkipDigits(LStrip(line))) # <<>>
    /\ Head(LStrip(SkipDigits(LStrip(line)))) \in {".", ")"}

\* re.sub(r"^\s*(?:[a-d][.)])\s*", "", line, flags=re.I)
CleanLine(line) ==
    IF /\ Len(LStrip(line)) >= 2
       /\ LowerChar(LStrip(line)[1]) \in McqLetters
       /\ LStrip(line)[2] \in {".", ")"}
    THEN LStrip(SubSeq(LStrip(line), 3, Len(LStrip(line))))
    ELSE line

\* a flowable of the story: its style ("gap" is the spacer put before a section
\* header), its text, the rows of a table, and the lines first..last it was
\* made from
Flowable(style, text, rows, first, last) ==
    [style |-> style, text |-> text, rows |-> rows, first |-> first, last |-> last]

\* the end of the run of lines from i on that match pattern "option" or "table"
RECURSIVE RunEnd(_, _, _)
RunEnd(ls, i, kind) ==
    IF i <= Len(ls) /\ (IF kind = "option" THEN OptionRe(Strip(ls[i])) ELSE TableRe(Strip(ls[i])))
    THEN RunEnd(ls, i + 1, kind)
    ELSE i

\* row = [prettify_ascii_math(c.strip()) for c in line.strip().strip("|").split("|")],
\* kept as the prettified line
TableRows(ls, i, j) == [k \in 1..(j - i) |-> PrettifyAsciiMath(Strip(ls[i + k - 1]))]

\* one pass of the while loop at line i (pdf_builder.py 284-362): the
\* flowables it appends; the loop goes on behind the last line they cover
ClassifyAt(ls, i, ak) ==
    IF Strip(ls[i]) = <<>> THEN <<Flowable("spacer", <<>>, <<>>, i, i)>>
    ELSE IF SectionRe(Strip(ls[i])) /\ NotStartsWithQ(Strip(ls[i]))
         THEN <<Flowable("gap", <<>>, <<>>, i, i),
                Flowable("section", PrettifyAsciiMath(Strip(ls[i])), <<>>, i, i)>>
    ELSE IF QuestionRe(Strip(ls[i]))
         THEN <<Flowable("question", PrettifyAsciiMath(Strip(ls[i])), <<>>, i, i)>>
    ELSE IF OptionRe(Strip(ls[i]))
         THEN [k \in 1..(RunEnd(ls, i, "option") - i) |->
                  Flowable("option", PrettifyAsciiMath(Strip(ls[i + k - 1])), <<>>,
                           i + k - 1, i + k - 1)]
    ELSE IF HasMark(Strip(ls[i]))
         THEN <<Flowable("marks", PrettifyAsciiMath(Strip(ls[i])), <<>>, i, i)>>
    ELSE IF TableRe(Strip(ls[i]))
         THEN <<Flowable("table", <<>>, TableRows(ls, i, RunEnd(ls, i, "table")),
                         i, RunEnd(ls, i, "table") - 1)>>
    ELSE IF ak
         THEN <<Flowable("answer",
                         PrettifyAsciiMath(IF AnswerNumberRe(Strip(ls[i])) THEN Strip(ls[i])
                                           ELSE CleanLine(Strip(ls[i]))),
                         <<>>, i, i)>>
    ELSE <<Flowable("body", PrettifyAsciiMath(Strip(ls[i])), <<>>, i, i)>>

\* the whole loop from line i on
RECURSIVE BuildStory(_, _, _)
BuildStory(ls, i, ak) ==
    IF i > Len(ls) THEN <<>>
    ELSE ClassifyAt(ls, i, ak)
             \o BuildStory(ls, ClassifyAt(ls, i, ak)[Len(ClassifyAt(ls, i, ak))].last + 1, ak)

(***************************************************************************)
(* SpecBuild: one call of pdf_builder.build_mockpaper_pdf, one pass of the *)
(* loop per step                                                           *)
(***************************************************************************)
BuilderLines ==
    {<<>>,
     <<"1", ".", " ", "A">>,
     <<"1", ".", " ", "2">>,
     <<"q", "1", ".", " ", "t">>,
     <<"a", ".", " ", "w">>,
     <<"B", ".", " ", "m", "a", "r", "k">>,
     <<"5", " ", "m", "a", "r", "k", "s">>,
     <<"|", "a", "|", "b", "|">>,
     <<"|", "m", "a", "r", "k", "|">>,
     <<"a", "n", "s", "w", "e", "r", ":", " ", "b">>,
     <<"t", "^", "2">>,
     <<"a", ")", " ", "w">>,
     <<"\\", "[", " ", "x", " ", "\\", "]">>,
     <<"\\", "[", " ", "x">>,
     <<"y", " ", "\\", "]", " ">>}

InitBuild ==
    /\ IdleNorm /\ IdleKey /\ IdleGen /\ IdlePipe /\ getRaised = FALSE
    /\ IdleMid /\ IdleUni /\ IdleJson /\ IdleExport /\ IdleText
    /\ bpc = "call"
    /\ is_answer_key \in BOOLEAN
    /\ blines \in SeqsUpTo(BuilderLines, MaxDocLines)
    /\ bi = 0
    /\ story = <<>>

\* pdf_builder.py 261-280: the lines are normalised and the cover is laid out
SplitLines ==
    /\ bpc = "call"
    /\ blines' = [k \in 1..Len(blines) |-> OcrNormalize(blines[k])]
    /\ bi' = 1
    /\ bpc' = "loop"
    /\ UNCHANGED <<is_answer_key, story,
                   varsCore, varsMid, varsUni, varsJson, varsExport, varsText>>

\* pdf_builder.py 282-362: one pass of the while loop
LoopStep ==
    /\ bpc = "loop"
    /\ bi <= Len(blines)
    /\ story' = story \o ClassifyAt(blines, bi, is_answer_key)
    /\ bi' = story'[Len(story')].last + 1
    /\ UNCHANGED <<bpc, is_answer_key, blines,
                   varsCore, varsMid, varsUni, varsJson, varsExport, varsText>>

\* pdf_builder.py 364-378: the document is built and the path returned
BuildDoc ==
    /\ bpc = "loop"
    /\ bi > Len(blines)
    /\ bpc' = "returned"
    /\ UNCHANGED <<is_answer_key, blines, bi, story,
                   varsCore, varsMid, varsUni, varsJson, varsExport, varsText>>

NextBuild == SplitLines \/ LoopStep \/ BuildDoc

SpecBuild == InitBuild /\ [][NextBuild]_vars

(***************************************************************************)
(* SpecText: a section with one question is validated, rendered by         *)
(* _render_spec_to_text and its paper text laid out by                     *)
(* pdf_builder.build_mockpaper_pdf                                         *)
(***************************************************************************)
\* str(x).strip() on the option strings used here
StripStr(x) == IF x = " " THEN "" ELSE IF x = " b. x " THEN "b. x" ELSE x

\* Question._strip_empty_options: blank options go, an empty list becomes None
StripEmptyOptions(v) ==
    IF v = <<>> THEN v
    ELSE SelectSeq([k \in 1..Len(v) |-> StripStr(v[k])], LAMBDA x : x # "")

\* the characters of a token of a rendered line
Spell(t) ==
    CASE t = "Mock Exam Paper" ->
             <<"M", "o", "c", "k", " ", "E", "x", "a", "m", " ", "P", "a", "p", "e", "r">>
      [] t = ". "      -> <<".", " ">>
      [] t = "q1"      -> <<"q", "1">>
      [] t = "2A"      -> <<"2", "A">>
      [] t = " ("      -> <<" ", "(">>
      [] t = " marks)" -> <<" ", "m", "a", "r", "k", "s", ")">>
      [] t = "a. w"    -> <<"a", ".", " ", "w">>
      [] t = "b. x"    -> <<"b", ".", " ", "x">>
      [] OTHER         -> <<t>>

SpellLine(line) == Flatten([k \in 1..Len(line) |-> Spell(line[k])])

SpellText(text) == [k \in 1..Len(text) |-> SpellLine(text[k])]

TextIds == {"q1", "1", "a"}

TextTitles == {"T", "2A"}

TextMarks == {"None", "5"}

RawOptions == {"a. w", " b. x ", " ", "w"}

TextQuestions ==
    {[Question(id, opts, NoneVal) EXCEPT !.marks = mk] :
        id \in TextIds, mk \in TextMarks, opts \in SeqsUpTo(RawOptions, MaxOptions)}

InitText ==
    /\ IdleNorm /\ IdleKey /\ IdleGen /\ IdlePipe /\ getRaised = FALSE
    /\ IdleMid /\ IdleUni /\ IdleJson /\ IdleExport /\ IdleBuild
    /\ rpc = "raw"
    /\ rsec \in {Section(title, <<q>>) : title \in TextTitles, q \in TextQuestions}
    /\ rlines = <<>>
    /\ rstory = <<>>

\* llm_mockgen.py 444: MockSpec.model_validate runs the validator of options
ValidateSpec ==
    /\ rpc = "raw"
    /\ rsec' = [rsec EXCEPT !.questions[1].options = StripEmptyOptions(@)]
    /\ rpc' = "valid"
    /\ UNCHANGED <<rlines, rstory,
                   varsCore, varsMid, varsUni, varsJson, varsExport, varsBuild>>

\* llm_mockgen.py 446-475: the paper text of the spec
RenderText ==
    /\ rpc = "valid"
    /\ rlines' = SpellText(RenderSpecToText(MockSpec(<<rsec>>, <<>>), FALSE)[1])
    /\ rpc' = "text"
    /\ UNCHANGED <<rsec, rstory,
                   varsCore, varsMid, varsUni, varsJson, varsExport, varsBuild>>

\* pdf_builder.py 261-362: the story of the question paper
LayOutText ==
    /\ rpc = "text"
    /\ rstory' = BuildStory([k \in 1..Len(rlines) |-> OcrNormalize(rlines[k])], 1, FALSE)
    /\ rpc' = "built"
    /\ UNCHANGED <<rsec, rlines,
                   varsCore, varsMid, varsUni, varsJson, varsExport, varsBuild>>

NextText == ValidateSpec \/ RenderText \/ LayOutText

SpecText == InitText /\ [][NextText]_vars

(***************************************************************************)
(* Claims                                                                  *)
(***************************************************************************)
\* min(max(n, 1), 3): the variant count of a request for n mocks
VariantCount(n) == Min(Max(n, 1), 3)

\* C1 (SpecKey): after _ensure_complete_answer_key(m) returns, every
\* Question.id of every section of m has at least one AnswerItem with that id
\* in m.answer_key.
C1_EveryQuestionAnswered ==
    kpc = "completed" =>
        \A i \in 1..Len(mock.sections) :
            \A j \in 1..Len(mock.sections[i].questions) :
                \E a \in 1..Len(mock.answer_key) :
                    mock.answer_key[a].id = mock.sections[i].questions[j].id

\* C1 witness: completion returned on a mock of two non-empty sections whose
\* payload answered one question and left another unanswered.
C1_Witness ==
    /\ kpc = "completed"
    /\ Len(raw.sections) = 2
    /\ \A i \in 1..2 : raw.sections[i].questions # <<>>
    /\ raw.answer_key # <<>>
    /\ \E q \in Range(AllQuestions(raw)) : q.id \in AnswerIds(raw)
    /\ \E q \in Range(AllQuestions(raw)) : q.id \notin AnswerIds(raw)

\* C2 (SpecKey): for a validated and completed MockSpec the set of Question.id
\* values equals the set of AnswerItem.id values: no question lacks an entry
\* and no entry is orphaned.
C2_IdSetsEqual ==
    kpc = "completed" =>
        {q.id : q \in Range(AllQuestions(mock))} = {a.id : a \in Range(mock.answer_key)}

\* C3 (SpecKey): after completion every Question.id has exactly one
\* AnswerItem, and the answer_key never holds two entries with the same id.
C3_ExactlyOneAnswer ==
    kpc = "completed" =>
        /\ \A q \in Range(AllQuestions(mock)) :
              Cardinality({a \in 1..Len(mock.answer_key) : mock.answer_key[a].id = q.id}) = 1
        /\ \A a, b \in 1..Len(mock.answer_key) :
              mock.answer_key[a].id = mock.answer_key[b].id => a = b

\* the documented inputs of the label normalisation: the indices 0-4, a letter
\* a-d alone, followed by "." or ")", or in parentheses, and a digit 0-4 alone
C4_Documented(cv) ==
    \/ cv.kind = "int" /\ cv.n \in 0..4
    \/ /\ cv.kind = "str"
       /\ \/ \E l \in McqLetters :
                Lower(Strip(cv.s)) \in {<<l>>, <<l, ".">>, <<l, ")">>, <<"(", l, ")">>}
          \/ \E d \in {"0", "1", "2", "3", "4"} : Lower(Strip(cv.s)) = <<d>>

\* inputs that are none of the documented ones under any reading: None, an
\* int outside 0-4, a string holding no letter a-d and no digit 0-4
C4_Other(cv) ==
    \/ cv.kind = "none"
    \/ cv.kind = "int" /\ cv.n \notin 0..4
    \/ /\ cv.kind = "str"
       /\ \A i \in 1..Len(cv.s) :
             LowerChar(cv.s[i]) \notin McqLetters \cup {"0", "1", "2", "3", "4"}

\* C4 (SpecNorm): _normalize_mcq_correct_label never raises; a documented
\* input maps to one of a, b, c, d and every other input to None.
C4_NormalizeTotal ==
    npc # "call" =>
        /\ npc = "returned"
        /\ C4_Documented(correct) => lab \in McqLetters
        /\ C4_Other(correct) => lab = "None"

\* C5 (SpecGen): generate_mock_papers returns exactly min(max(num_mocks,1),3)
\* pairs, on the structured path and on the legacy path.
C5_ExactlyKPairs ==
    gpc = "returned" =>
        /\ Len(result) = VariantCount(num_mocks)
        /\ \A i \in 1..Len(result) : Len(result[i]) = 2

\* generate_mock_specs returned (the legacy call was never made)
StructuredReturned == gpc = "returned" /\ lresp.kind = "none"

\* C6 (SpecGen): for every service response that validates,
\* generate_mock_specs returns exactly k = min(max(n,1),3) specs: the mocks of
\* the response first, in their order and at most k of them, then placeholders
\* with one section titled "Section 1", no question and an empty answer key.
C6_ExactlyKSpecs ==
    (gpc # "try" /\ sresp.kind = "valid") =>
        /\ StructuredReturned
        /\ Len(specs) = VariantCount(num_mocks)
        /\ \A i \in 1..Len(specs) :
              IF i <= Len(sresp.mocks)
              THEN /\ specs[i].title = sresp.mocks[i].title
                   /\ specs[i].sections = sresp.mocks[i].sections
              ELSE specs[i] = [title      |-> "Mock Exam Paper",
                               sections   |-> << [title |-> "Section 1", questions |-> <<>>] >>,
                               answer_key |-> <<>>]

\* every upload is a readable DOCX without text or a PDF without pages
NoTextUploads ==
    /\ files # <<>>
    /\ \A i \in 1..Len(files) :
          files[i].ext \in {".pdf", ".docx"} /\ files[i].content = "empty"

PdfFiles == {f \in fs : f[4] = ".pdf" /\ f[2] \in {"mock", "mock_answers"}}

\* C7 (Spec): when the uploads together yield no text, the request fails in
\* the extracting stage with the "no text extracted" error; the generative
\* service is never called and nothing is rendered.
C7_EmptyExtractionFails ==
    NoTextUploads =>
        /\ llm = 0
        /\ PdfFiles = {}
        /\ stage \in {"received", "extracting", "failed"}
        /\ (stage = "failed" /\ Len(extracted) = Len(files) /\ booted)
               => err = "No text extracted from uploaded documents."

\* mock_1.pdf, mock_1_answers.pdf, ..., mock_N.pdf, mock_N_answers.pdf
ExpectedPaths(N) ==
    [j \in 1..(2 * N) |->
        IF j % 2 = 1 THEN <<"out", "mock", (j + 1) \div 2, ".pdf">>
        ELSE <<"out", "mock_answers", j \div 2, ".pdf">>]

\* C8 (Spec): the pipeline returns a path list only on completion, and then
\* exactly the 2*N paths of the N generated variants in order, every one a
\* PDF written in the working directory; a request that met an error has
\* failed and returned no path list.
C8_AllOrNothing ==
    /\ ret.returned =>
          /\ stage = "complete"
          /\ err = "none"
          /\ ret.paths = ExpectedPaths(Len(mock_pairs))
          /\ \A j \in 1..Len(ret.paths) : ret.paths[j] \in fs
    /\ stage = "complete" => ret.returned
    /\ err # "none" => stage = "failed" /\ ~ret.returned
    /\ stage = "failed" => ~ret.returned /\ err # "none"

\* C8 witness: a request completed with two or more variants.
C8_Witness == stage = "complete" /\ Len(mock_pairs) >= 2 /\ ret.returned

StageSteps ==
    {<<"received", "extracting">>, <<"extracting", "generating">>,
     <<"generating", "rendering">>, <<"rendering", "complete">>}
        \cup {<<s, "failed">> : s \in {"received", "extracting", "generating", "rendering"}}

\* C9 (Spec): the stages follow received -> extracting -> generating ->
\* rendering -> complete, a stage is left for the next one only without an
\* error, failed is entered from any of the four working stages; extraction
\* work happens in extracting only, a service call is made in generating only
\* and after the text artifact was written, a PDF is written in rendering
\* only and after generation returned a non-empty list; nothing changes after
\* complete or failed.
C9_StageOrder ==
    /\ [][/\ stage' # stage => <<stage, stage'>> \in StageSteps
          /\ (stage' # stage /\ stage' # "failed") => err' = "none"
          /\ extracted' # extracted => stage = "extracting"
          /\ llm' # llm => /\ stage = "generating"
                           /\ <<"out", "reference_concat", 0, ".txt">> \in fs
                           /\ Len(extracted) = Len(files)
          /\ PdfFiles' # PdfFiles => stage = "rendering" /\ mock_pairs # <<>> /\ llm > 0
          /\ stage \in {"complete", "failed"} => UNCHANGED vars]_vars
    /\ [](stage = "generating" => <<"out", "reference_concat", 0, ".txt">> \in fs)
    /\ [](stage \in {"rendering", "complete"} => mock_pairs # <<>> /\ llm > 0)

\* C9 witness: a request that went through every stage to complete.
C9_Witness ==
    /\ stage = "complete"
    /\ Len(extracted) = Len(files)
    /\ llm = 2
    /\ Cardinality(PdfFiles) = 2 * Len(mock_pairs)

\* C10 (Spec): with an empty upload list the pipeline fails at once with the
\* input error; the working directory was created and holds no file, no
\* extraction was done and no service call made.
C10_EmptyUploadFailsFast ==
    (files = <<>> /\ stage # "received") =>
        /\ stage = "failed"
        /\ err = "No input files provided for processing."
        /\ dirMade
        /\ fs = {}
        /\ ~booted /\ extracted = <<>>
        /\ llm = 0

\* C10 witness: the request with no upload has failed.
C10_Witness == files = <<>> /\ stage = "failed" /\ dirMade

\* some upload has an extension papers_to_clean_text does not handle
HasUnsupported == \E i \in 1..Len(files) : files[i].ext \notin {".pdf", ".docx", ".doc"}

\* C11 (Spec): an upload set holding a file with an unsupported extension
\* fails with the unsupported-type error naming that extension before any
\* document of the set is extracted, wherever the file stands in the list;
\* no text artifact is written and no service call is made.
C11_UnsupportedFailsFirst ==
    HasUnsupported =>
        /\ extracted = <<>>
        /\ <<"out", "reference_concat", 0, ".txt">> \notin fs
        /\ llm = 0
        /\ stage \in {"received", "extracting", "failed"}
        /\ (stage = "failed" /\ booted) => err = "Unsupported file type: .txt"

\* what a page should contribute: its native text, else the recognised text,
\* else nothing
PageText(pg) ==
    IF pg.native # "" THEN pg.native
    ELSE IF pg.scan \in {"nothing", "error"} THEN "" ELSE pg.scan

\* the non-empty page texts of a document in page order
RECURSIVE PageTexts(_)
PageTexts(ps) ==
    IF ps = <<>> THEN <<>>
    ELSE IF PageText(Head(ps)) = "" THEN PageTexts(Tail(ps))
    ELSE <<PageText(Head(ps))>> \o PageTexts(Tail(ps))

\* the call on an opened document is over
PdfCallOver == xpc \in {"returned", "raised"}

\* C12 (SpecPdf): a recognition error on one page of a PDF does not abort the
\* extraction of the document: that page contributes no text and the texts of
\* all other pages are returned in page order.
C12_OcrErrorKeepsOtherPages ==
    (PdfCallOver /\ \E i \in 1..Len(pages) : pages[i].native = "" /\ pages[i].scan = "error")
        => (xpc = "returned" /\ text_blocks = PageTexts(pages))

\* C13 (SpecPdf): for a PDF whose pages can all be read, _extract_text_from_pdf
\* returns the page texts in page order, the native text of a page that has
\* one and the recognised text of a page that has none.
C13_PageTextsInOrder ==
    (PdfCallOver /\ \A i \in 1..Len(pages) : pages[i].scan # "error")
        => (xpc = "returned" /\ text_blocks = PageTexts(pages))

\* the positions of the paper and of the answer delimiters of a response
PaperAt(lines)  == {i \in 1..Len(lines) : lines[i] # <<>> /\ Head(lines[i]) = "### MOCK PAPER"}
AnswerAt(lines) == {i \in 1..Len(lines) : lines[i] # <<>> /\ Head(lines[i]) = "### ANSWER KEY"}

\* the position of the j-th paper delimiter, and where block j ends
NthPaper(lines, j) ==
    CHOOSE i \in PaperAt(lines) : Cardinality({p \in PaperAt(lines) : p < i}) = j - 1
BlockEnd(lines, j) ==
    IF j = Cardinality(PaperAt(lines)) THEN Len(lines) + 1 ELSE NthPaper(lines, j + 1)
BlockAnswer(lines, j) ==
    CHOOSE a \in AnswerAt(lines) : NthPaper(lines, j) < a /\ a < BlockEnd(lines, j)

\* well-formed blocks: every paper delimiter is followed by one answer
\* delimiter of its own, with a line or more after each of the two, and no
\* answer delimiter comes before the first paper delimiter
WellFormedBlocks(lines) ==
    /\ PaperAt(lines) # {}
    /\ \A a \in AnswerAt(lines) : \E p \in PaperAt(lines) : p < a
    /\ \A j \in 1..Cardinality(PaperAt(lines)) :
          /\ Cardinality({a \in AnswerAt(lines) :
                             NthPaper(lines, j) < a /\ a < BlockEnd(lines, j)}) = 1
          /\ NthPaper(lines, j) + 1 < BlockAnswer(lines, j)
          /\ BlockAnswer(lines, j) + 1 < BlockEnd(lines, j)

\* the lines from position a to position b as the code hands them on:
\* normalised line by line, joined, stripped
BlockText(lines, a, b) ==
    JoinStrip([i \in 1..(b - a + 1) |-> NormalizeUnicodeMath(lines[a + i - 1])])

\* C14 (SpecGen): when the structured path fails and the legacy response is
\* made of as many well-formed blocks as variants are due, generate_mock_papers
\* returns one pair per block in block order: the lines between the block's
\* paper delimiter and its answer delimiter, and the lines between its answer
\* delimiter and the next paper delimiter or the end; text before the first
\* delimiter is in no pair.
C14_OnePairPerBlock ==
    (/\ gpc = "returned" /\ lresp.kind = "text"
     /\ WellFormedBlocks(lresp.lines)
     /\ Cardinality(PaperAt(lresp.lines)) = VariantCount(num_mocks))
        => result = [j \in 1..Cardinality(PaperAt(lresp.lines)) |->
                        <<BlockText(lresp.lines, NthPaper(lresp.lines, j) + 1,
                                    BlockAnswer(lresp.lines, j) - 1),
                          BlockText(lresp.lines, BlockAnswer(lresp.lines, j) + 1,
                                    BlockEnd(lresp.lines, j) - 1)>>]

\* the request brought a credential of its own: present, not blank, not the
\* placeholder word
OwnCredential ==
    /\ form_key.kind = "str"
    /\ Strip(form_key.s) # <<>>
    /\ Strip(form_key.s) \notin {<<"string">>, <<"String">>}

\* the key resolution of the current request is over
KeyResolved == apc \in {"pipeline", "done"}

\* C15 (SpecApp): a request without a credential of its own, in a process
\* started without a default credential, gets the configuration error; the
\* pipeline is not started and no service call is made.
C15_NoCredentialNoCall ==
    (KeyResolved /\ ~OwnCredential /\ env0 = <<>>)
        => (apc = "done" /\ reply = "400" /\ used = {})

\* C16 (SpecApp): the credential a request brings (present, not blank, not the
\* placeholder) is the one its service calls use, even when a default exists;
\* so another credential is used only when the request brought none.
C16_OwnCredentialWins ==
    KeyResolved =>
        /\ OwnCredential => (reqkey = Strip(form_key.s) /\ reply # "400")
        /\ used \subseteq {reqkey}
        /\ (used # {} /\ used # {Strip(form_key.s)}) => ~OwnCredential

\* C16 witness: service calls were made with the request's own credential in
\* a process whose default credential is another one.
C16_Witness ==
    /\ apc = "done" /\ env0 = <<"d">>
    /\ form_key = StrVal(<<" ", "k2", " ">>)
    /\ used = {<<"k2">>}

\* C17 (SpecApp): a request leaves nothing behind that a later one can see:
\* the credential in the environment stays the one the process started with,
\* and a request without a credential of its own resolves to that default, or
\* to the missing-credential error, whatever earlier requests supplied.
C17_NoStateLeftBehind ==
    /\ apc \in {"idle", "done"} => environ = env0
    /\ (KeyResolved /\ ~OwnCredential /\ env0 # <<>>) => reqkey \in {<<>>, env0}
    /\ (KeyResolved /\ ~OwnCredential /\ env0 = <<>>) => reply = "400"

\* C18 (SpecApp): over all the requests of the process the recognition engine
\* of one (languages, device, storage) combination is constructed once at most.
C18_EngineBuiltOnce == readers <= 1

\* C19 (SpecOcr): whatever the interleaving of the lookups and the insertions
\* of concurrent first uses, one engine at most is built for a cache key, and
\* callers that asked for the same key hold the same engine.
C19_OneEnginePerKey ==
    /\ \A i, j \in 1..Len(built) : built[i] = built[j] => i = j
    /\ \A t, u \in Threads :
           (tret[t] # 0 /\ tret[u] # 0 /\ tpc[t].key = tpc[u].key) => tret[t] = tret[u]

\* the detections of the engine result, in the order reported
ResultDetections == Flatten(res.body)

\* positions of the well-formed detections with a non-empty normalised text
\* and a confidence not below t
KeptAt(t) ==
    {i \in 1..Len(ResultDetections) :
        /\ ResultDetections[i].shape = "full"
        /\ NormalizeMathText(ResultDetections[i].text) # <<>>
        /\ ResultDetections[i].conf >= t}

\* out holds the tokens of the detections at the positions in K, once each
HoldsExactly(out, K) ==
    /\ Len(out) = Cardinality(K)
    /\ \A tok \in Range(out) \cup {Token(ResultDetections[i]) : i \in K} :
           Cardinality({j \in 1..Len(out) : out[j] = tok})
               = Cardinality({i \in K : Token(ResultDetections[i]) = tok})

\* C20 (SpecConf): for one engine result filtered at thresholds t1 <= t2, the
\* two calls end the same way, every token returned at t2 is returned at t1,
\* and at each threshold the tokens returned are exactly those of the
\* detections whose normalised text is not empty and whose confidence is not
\* below the threshold.
C20_MonotonicFilter ==
    fpc = "done" =>
        /\ outs[1].raised = outs[2].raised
        /\ Range(outs[2].out) \subseteq Range(outs[1].out)
        /\ Len(outs[2].out) <= Len(outs[1].out)
        /\ ~outs[1].raised =>
               /\ HoldsExactly(outs[1].out, KeptAt(thr[1]))
               /\ HoldsExactly(outs[2].out, KeptAt(thr[2]))

\* C20 witness: two detections pass the lower threshold and one of them fails
\* the higher one.
C20_Witness ==
    /\ fpc = "done" /\ thr = <<1, 2>>
    /\ res = EngineResult("items",
                 << <<Detection(<< <<0, 2>> >>, <<"O">>, 1), Detection(<< <<1, 1>> >>, <<"a", " ">>, 2)>> >>)
    /\ outs[1].out = <<[bbox |-> << <<1, 1>> >>, text |-> <<"a">>, conf |-> 2],
                       [bbox |-> << <<0, 2>> >>, text |-> <<"0">>, conf |-> 1]>>
    /\ outs[2].out = <<[bbox |-> << <<1, 1>> >>, text |-> <<"a">>, conf |-> 2]>>

\* C25 (SpecGen): one call of generate_mock_papers makes two service calls at
\* most; the legacy call is made only after the structured path raised; and a
\* legacy call that fails ends the call with its error, not with a result.
C25_AtMostTwoCalls ==
    /\ calls <= 2
    /\ calls = 2 => lresp # NoLResp
    /\ lresp # NoLResp =>
           GenerateMockSpecs(num_mocks, hasKey, sresp, getRaised).status = "raise"
    /\ (gpc \in {"returned", "raised"} /\ lresp.kind = "error") =>
           (gpc = "raised" /\ result = <<>>)

\* C25 witness: the structured call and the legacy call were both made and
\* the legacy one failed.
C25_Witness == gpc = "raised" /\ calls = 2 /\ sresp.kind = "malformed" /\ lresp.kind = "error"

\* the ways the service writes the index n whose digit is d
IndexForms(n, d) == {IntVal(n), StrVal(<<d>>), StrVal(<<d, ".">>), StrVal(<<"(", d, ")">>)}

\* C30 (SpecNorm): the label returned for an index does not depend on how the
\* index is written: n, 'n', 'n.' and '(n)' all give the label of the int n.
C30_SameLabelForEveryForm ==
    npc = "returned" =>
        \A n \in {0, 1, 4, 5} :
            correct \in IndexForms(n, <<"0", "1", "2", "3", "4", "5">>[n + 1])
                => lab = NormalizeMcqCorrectLabel(IntVal(n))

PrintableAscii == 32..126
GreekLetters == (913..937) \cup (945..969)

\* root, sum, integral, infinity
NamedMathSymbols == {8730, 8721, 8747, 8734}

\* the block U+2200..U+22FF, Mathematical Operators
MathOperators == 8704..8959

\* C22 (SpecUni), as stated: every character of the output is printable ASCII,
\* a Greek letter, one of root, sum, integral, infinity, or the placeholder "*".
C22_OnlyWhitelisted ==
    upc = "returned" =>
        \A i \in 1..Len(uout) :
            uout[i] \in PrintableAscii \cup GreekLetters \cup NamedMathSymbols \cup {42}

\* C22 (SpecUni), amended: every character of the output is printable ASCII,
\* a Greek letter, a character of the Mathematical Operators block, or "*";
\* and a single character that has no decomposition, is not a combining mark,
\* is no key of the replacement table and is in none of these sets comes out
\* as "*".
C22_OnlyKeptBlocks ==
    upc = "returned" =>
        /\ \A i \in 1..Len(uout) :
               uout[i] \in PrintableAscii \cup GreekLetters \cup MathOperators \cup {42}
        /\ (/\ Len(utext) = 1
            /\ Nfkd(utext[1]) = utext
            /\ ~IsCombining(utext[1])
            /\ Replacement(utext[1]) = 0
            /\ utext[1] \notin PrintableAscii \cup GreekLetters \cup MathOperators)
               => uout = <<42>>

\* C22 witness: a less-or-equal sign is kept and an ideograph becomes "*".
C22_Witness == upc = "returned" /\ utext = <<8804, 20013>> /\ uout = <<8804, 42>>

\* the nesting depth after the first n characters of s
RECURSIVE BraceDepth(_, _)
BraceDepth(s, n) ==
    IF n = 0 THEN 0
    ELSE BraceDepth(s, n - 1) + (IF s[n] = "{" THEN 1 ELSE IF s[n] = "}" THEN 0 - 1 ELSE 0)

\* s holds a balanced object that starts at its first "{"
HasBalancedObject(s) ==
    \E a, b \in 1..Len(s) :
        /\ a < b /\ s[a] = "{" /\ \A k \in 1..(a - 1) : s[k] # "{"
        /\ BraceDepth(s, b) = 0

\* the text from the first "{" to the "}" that closes it
FirstBalancedObject(s) ==
    SubSeq(s, FirstOpen(s),
           CHOOSE b \in (FirstOpen(s) + 1)..Len(s) :
               BraceDepth(s, b) = 0 /\ \A k \in FirstOpen(s)..(b - 1) : BraceDepth(s, k) > 0)

\* C29 (SpecJson): once the code fence is removed, what _extract_json returns
\* is the first balanced object of the response, from its first "{" to the "}"
\* that closes it, whatever follows that object.
C29_FirstBalancedObject ==
    (jpc = "returned" /\ HasBalancedObject(StripFence(Strip(jraw))))
        => jout = FirstBalancedObject(StripFence(Strip(jraw)))

\* the HTML backend cannot produce the PDF: no template engine, no browser
\* library, or PDF generation raising
PreferredBackendFails == ~has_jinja \/ ~has_playwright \/ ~pdf_ok

\* C23 (SpecExport): when the HTML backend is unavailable or fails at any of
\* its steps and ReportLab works, the call returns with the PDF written by the
\* ReportLab backend; the call raises only when both backends fail.
C23_FallbackToReportlab ==
    epc \in {"returned", "raised"} =>
        /\ (PreferredBackendFails /\ reportlab_ok) => (epc = "returned" /\ out_pdf = "reportlab")
        /\ epc = "raised" => (PreferredBackendFails /\ ~reportlab_ok)

(***************************************************************************)
(* Claims about the line classifier of pdf_builder                         *)
(***************************************************************************)
OpensBlock(line) == Contains(line, <<"\\", "[">>)

ClosesBlock(line) == Contains(line, <<"\\", "]">>)

\* the lines n..m joined with single spaces
RECURSIVE JoinLines(_, _, _)
JoinLines(ls, n, m) ==
    IF n = m THEN Strip(ls[n]) ELSE Strip(ls[n]) \o <<" ">> \o JoinLines(ls, n + 1, m)

\* line m is the first line after n that closes a block
FirstClose(ls, n, m) ==
    /\ n < m
    /\ ClosesBlock(ls[m])
    /\ \A k \in (n + 1)..(m - 1) : ~ClosesBlock(ls[k])

\* C24: a block of mathematics opened and closed on the same line reaches the
\* story unaltered, and one opened on line N and closed on line M > N is one
\* unit made of exactly the lines N..M joined with single spaces
C24_MathBlocksStitched ==
    bpc = "returned" =>
        /\ \A k \in 1..Len(blines) :
               OpensBlock(blines[k]) /\ ClosesBlock(blines[k]) =>
                   \E f \in Range(story) :
                       f.first = k /\ f.last = k /\ f.text = Strip(blines[k])
        /\ \A n \in 1..Len(blines), m \in 1..Len(blines) :
               (OpensBlock(blines[n]) /\ ~ClosesBlock(blines[n]) /\ FirstClose(blines, n, m)) =>
                   \E f \in Range(story) :
                       f.first = n /\ f.last = m /\ f.text = JoinLines(blines, n, m)

StartsWith(s, prefix) ==
    Len(s) >= Len(prefix) /\ SubSeq(s, 1, Len(prefix)) = prefix

\* the line begins with "answer", "ans:" or "solution"
BeginsAnswer(line) ==
    \/ StartsWith(Lower(line), <<"a", "n", "s", "w", "e", "r">>)
    \/ StartsWith(Lower(line), <<"a", "n", "s", ":">>)
    \/ StartsWith(Lower(line), <<"s", "o", "l", "u", "t", "i", "o", "n">>)

\* the first rule, in the stated order, that a stripped line matches
FirstMatch(line, ak) ==
    IF line = <<>> THEN "spacer"
    ELSE IF SectionRe(line) /\ NotStartsWithQ(line) THEN "section"
    ELSE IF QuestionRe(line) THEN "question"
    ELSE IF OptionRe(line) THEN "option"
    ELSE IF HasMark(line) THEN "marks"
    ELSE IF ak /\ BeginsAnswer(line) THEN "answer"
    ELSE IF TableRe(line) THEN "table"
    ELSE "body"

\* the flowables made from line k, the spacer before a section header aside
Covering(k) ==
    {n \in 1..Len(story) :
        story[n].style # "gap" /\ story[n].first <= k /\ k <= story[n].last}

\* C27: every line is consumed exactly once, in order, by the first rule it
\* matches in the order blank, section, question, option block, marks,
\* answer styling (answer keys only), table, body
C27_FirstMatchWins ==
    bpc = "returned" =>
        /\ \A k \in 1..Len(blines) :
               /\ Cardinality(Covering(k)) = 1
               /\ \A n \in Covering(k) :
                      story[n].style = FirstMatch(Strip(blines[k]), is_answer_key)
        /\ \A n \in 1..Len(story), o \in 1..Len(story) :
               n < o => story[n].last <= story[o].first

\* C28: answer styling is given only in answer keys and only to lines that
\* begin with "answer", "ans:" or "solution"; every other line of an answer
\* key is rendered as it is in a question paper
C28_AnswerStyleOnlyForAnswerLines ==
    bpc = "returned" =>
        \A f \in Range(story) :
            IF f.style = "answer"
            THEN is_answer_key /\ BeginsAnswer(Strip(blines[f.first]))
            ELSE f \in Range(BuildStory(blines, 1, FALSE))

(***************************************************************************)
(* Claims about the rendered text of a spec                                *)
(***************************************************************************)
\* the rendered text is the title, a blank line, the section line, the
\* question line and then the option lines
LineAt(part) == CASE part = "section" -> 3 [] part = "question" -> 4

OptionLineCount == Len(rlines) - LineAt("question")

\* C21: the rendered text of a question that has options holds exactly four
\* option lines
C21_ExactlyFourOptionLines ==
    (rpc \in {"text", "built"} /\ rsec.questions[1].options # <<>>) => OptionLineCount = 4

\* the styles of the flowables made from line k, the spacer before a section
\* header aside
StylesAt(k) ==
    {f.style : f \in {g \in Range(rstory) : g.style # "gap" /\ g.first <= k /\ k <= g.last}}

\* C26: in the story laid out from the rendered text, the section line is a
\* section header, the question line a question heading and every option
\* line an option
C26_RenderedLinesClassified ==
    rpc = "built" =>
        /\ StylesAt(LineAt("section")) = {"section"}
        /\ StylesAt(LineAt("question")) = {"question"}
        /\ \A k \in 1..OptionLineCount : StylesAt(LineAt("question") + k) = {"option"}

====
